---- MODULE Spec2Model ----
(***************************************************************************)
(* promtotwilio: the Alertmanager webhook -> Twilio SMS bridge.            *)
(*                                                                         *)
(* Three state machines share this module:                                 *)
(*   SpecClient   TwilioHTTPClient.SendMessage, one call, attempt by       *)
(*                attempt (retry loop, backoff table, provider outcomes);  *)
(*   SpecLimiter  RateLimiter.Allow under concurrent callers and a clock;  *)
(*   Spec         Handler.SendRequest: validation, status gate, fan-out    *)
(*                of one goroutine per (alert, receiver), the aggregation  *)
(*                mutex, the join and the response.                        *)
(* Strings are sequences of one-character strings; durations are seconds   *)
(* in the client and 20 s ticks in the rate limiter.                       *)
(***************************************************************************)
EXTENDS Integers, Sequences, FiniteSets, TLC

VARIABLES
    \* ---- TwilioHTTPClient.SendMessage (one call) ----
    c_pc,        \* "idle" | "loop" | "returned"
    c_urlOK,     \* whether http.NewRequestWithContext accepts apiURL
    attempt,     \* the loop variable of SendMessage
    lastErr,     \* the local lastErr
    c_ret,       \* the value SendMessage returned
    iterLog,     \* one entry per loop iteration: the delay slept, the outcome
    \* ---- RateLimiter ----
    tokens, max, lastFill,
    rl_mu,       \* holder of RateLimiter.mu (0: free)
    rl_pc,       \* per caller: position inside Allow()
    rl_expired,  \* per caller: what time.Since(lastFill) >= interval evaluated to
    rl_ret,      \* per caller: the last value Allow() returned to it
    now,         \* the clock
    rl_hist,     \* history: resets performed, calls and grants since the last reset
    \* ---- Handler ----
    cfg,         \* Handler.Config
    metrics,     \* Handler.metrics: the three atomic counters
    h_pc,        \* per request: "none" | "wait" (in wg.Wait) | "responded"
    h_in,        \* per request: the request as received
    h_units,     \* per request: the goroutines started by wg.Go
    h_mu,        \* per request: holder of the local mutex mu (0: free)
    h_sent, h_failed, h_errs,   \* per request: the locals sent, failed, sendErrors
    h_resp,      \* per request: the response written
    h_left,      \* requests the clients still send
    h_pool,      \* which requests the clients choose from: "all" | "server" | "none"
    \* ---- TruncateMessage, called twice on an input ----
    t_pc,        \* "ready" | "once" | "twice"
    t_msg, t_maxLen,   \* the arguments
    t_out,       \* the first call's outcome: [panic, out]
    t_again,     \* the outcome of the call on the first result
    \* ---- FormatMessage and the hand-over in Handler.sendMessage ----
    f_pc,        \* "ready" | "formatted" | "handed"
    f_alert, f_status, f_cfg,   \* the arguments
    f_raw,       \* the local body just before TruncateMessage
    f_out,       \* what FormatMessage returned: [body, err]
    f_handed,    \* what sendMessage passed on: [to, body] or nothing
    \* ---- FindAndReplaceLabels on a text and an alert ----
    l_pc,        \* "ready" | "done"
    l_body, l_alert,   \* the arguments
    l_out        \* the string returned

cvars == <<c_pc, c_urlOK, attempt, lastErr, c_ret, iterLog>>
rvars == <<tokens, max, lastFill, rl_mu, rl_pc, rl_expired, rl_ret, now, rl_hist>>
hvars == <<cfg, metrics, h_pc, h_in, h_units, h_mu, h_sent, h_failed, h_errs, h_resp, h_left, h_pool>>
tvars == <<t_pc, t_msg, t_maxLen, t_out, t_again>>
fvars == <<f_pc, f_alert, f_status, f_cfg, f_raw, f_out, f_handed>>
lvars == <<l_pc, l_body, l_alert, l_out>>
vars  == <<cvars, rvars, hvars, tvars, fvars, lvars>>

----------------------------------------------------------------------------
(* Strings: Go strings as sequences of one-character strings (bytes) *)

LowerChars == <<"a","b","c","d","e","f","g","h","i","j","k","l","m",
                "n","o","p","q","r","s","t","u","v","w","x","y","z">>
UpperChars == <<"A","B","C","D","E","F","G","H","I","J","K","L","M",
                "N","O","P","Q","R","S","T","U","V","W","X","Y","Z">>
Lower == {LowerChars[i] : i \in 1..26}
Upper == {UpperChars[i] : i \in 1..26}
DigitChars == <<"0","1","2","3","4","5","6","7","8","9">>
Digits == {DigitChars[i] : i \in 1..10}
\* unicode.IsSpace on the ASCII range
WhiteSpace == {" ", "\t", "\n", "\r", "\f"}

\* s[from..] in Go's 0-based slicing is Drop(s, from); s[:n] is Take(s, n).
Take(s, n) == SubSeq(s, 1, n)
Drop(s, n) == SubSeq(s, n + 1, Len(s))

\* strings.ToLower on ASCII
ToLower(s) ==
    [k \in 1..Len(s) |->
        IF s[k] \in Upper
        THEN LowerChars[CHOOSE i \in 1..26 : UpperChars[i] = s[k]]
        ELSE s[k]]

\* strings.TrimSpace
RECURSIVE TrimLeft(_)
TrimLeft(s) == IF s # <<>> /\ s[1] \in WhiteSpace THEN TrimLeft(Tail(s)) ELSE s
RECURSIVE TrimRight(_)
TrimRight(s) ==
    IF s # <<>> /\ s[Len(s)] \in WhiteSpace THEN TrimRight(Take(s, Len(s) - 1)) ELSE s
TrimSpace(s) == TrimRight(TrimLeft(s))

\* strings.HasPrefix(Drop(s, i), p)
HasPrefixAt(s, i, p) ==
    /\ i + Len(p) <= Len(s)
    /\ \A k \in 1..Len(p) : s[i + k] = p[k]

\* strings.TrimSpace(s) == ""
IsBlank(s) == TrimSpace(s) = <<>>

\* strings.ReplaceAll(s, old, new) for a non-empty old: the non-overlapping
\* occurrences of old, leftmost first.
RECURSIVE ReplaceAll(_, _, _)
ReplaceAll(s, old, new) ==
    IF Len(s) < Len(old) THEN s
    ELSE IF HasPrefixAt(s, 0, old)
         THEN new \o ReplaceAll(Drop(s, Len(old)), old, new)
         ELSE <<s[1]>> \o ReplaceAll(Drop(s, 1), old, new)

----------------------------------------------------------------------------
(* Alert, GetLabel, GetAnnotation *)

\* Labels and Annotations are sets of <<name, value>> pairs with unique
\* names (a Go map).
Lookup(m, name) ==
    IF \E p \in m : p[1] = name
    THEN (CHOOSE p \in m : p[1] = name)[2]
    ELSE <<>>

GetLabel(alert, name) == Lookup(alert.Labels, name)
GetAnnotation(alert, name) == Lookup(alert.Annotations, name)

----------------------------------------------------------------------------
(* FindAndReplaceLabels, TruncateMessage *)

LabelsPrefix == <<"$","l","a","b","e","l","s",".">>
IdentStart == Lower \cup Upper \cup {"_"}
IdentChar == IdentStart \cup Digits

\* The length of the longest run of identifier characters of s from
\* 0-based position i.
RECURSIVE IdentRun(_, _)
IdentRun(s, i) ==
    IF i < Len(s) /\ s[i + 1] \in IdentChar THEN 1 + IdentRun(s, i + 1) ELSE 0

\* labelReg matches at 0-based position i of s.
MatchAt(s, i) ==
    /\ HasPrefixAt(s, i, LabelsPrefix)
    /\ i + Len(LabelsPrefix) < Len(s)
    /\ s[i + Len(LabelsPrefix) + 1] \in IdentStart

\* labelReg.FindAllString(body, -1) for \$labels\.[a-zA-Z_][a-zA-Z0-9_]* :
\* the leftmost, longest, non-overlapping matches from 0-based position i.
RECURSIVE FindAllLabels(_, _)
FindAllLabels(s, i) ==
    LET starts == {k \in i..(Len(s) - 1) : MatchAt(s, k)}
    IN  IF starts = {} THEN <<>>
        ELSE LET k == CHOOSE j \in starts : \A h \in starts : j <= h
                 n == Len(LabelsPrefix) + IdentRun(s, k + Len(LabelsPrefix))
             IN  <<SubSeq(s, k + 1, k + n)>> \o FindAllLabels(s, k + n)

\* strings.Split(s, sep) for a one-character separator
RECURSIVE Split(_, _)
Split(s, sep) ==
    IF \E k \in 1..Len(s) : s[k] = sep
    THEN LET k == CHOOSE j \in 1..Len(s) : s[j] = sep /\ \A h \in 1..(j - 1) : s[h] # sep
         IN  <<Take(s, k - 1)>> \o Split(Drop(s, k), sep)
    ELSE <<s>>

\* The loop over matches: each match is replaced everywhere in the body
\* as it stands after the earlier replacements.
RECURSIVE ReplaceMatches(_, _, _)
ReplaceMatches(body, matches, alert) ==
    IF matches = <<>> THEN body
    ELSE LET match == Head(matches)
             labelName == Split(match, ".")
             next == IF Len(labelName) = 2
                     THEN ReplaceAll(body, match, GetLabel(alert, labelName[2]))
                     ELSE body
         IN  ReplaceMatches(next, Tail(matches), alert)

FindAndReplaceLabels(body, alert) ==
    ReplaceMatches(body, FindAllLabels(body, 0), alert)

\* The case maxLen <= 3 is missing.
TruncateMessage_NoShortCase(msg, maxLen) ==
    IF Len(msg) <= maxLen THEN msg
    ELSE Take(msg, maxLen - 3) \o <<".", ".", ".">>

\* The early return is missing: a message that fits is cut as well (the
\* slice bounds clamped to its length).
TruncateMessage_AlwaysCuts(msg, maxLen) ==
    IF maxLen <= 3 THEN Take(msg, IF maxLen < Len(msg) THEN maxLen ELSE Len(msg))
    ELSE Take(msg, IF maxLen - 3 < Len(msg) THEN maxLen - 3 ELSE Len(msg)) \o <<".", ".", ".">>

TruncateMessage(msg, maxLen) ==
    IF Len(msg) <= maxLen THEN msg
    ELSE IF maxLen <= 3 THEN Take(msg, maxLen)
    ELSE Take(msg, maxLen - 3) \o <<".", ".", ".">>

----------------------------------------------------------------------------
(* time.Parse(time.RFC3339, s) and Time.Format(time.RFC1123) *)

IsDigitAt(s, i) == i < Len(s) /\ s[i + 1] \in Digits
IsCharAt(s, i, c) == i < Len(s) /\ s[i + 1] = c
DigitVal(c) == (CHOOSE k \in 1..10 : DigitChars[k] = c) - 1
Num2At(s, i) == 10 * DigitVal(s[i + 1]) + DigitVal(s[i + 2])
Num4At(s, i) == 100 * Num2At(s, i) + Num2At(s, i + 2)
TwoDigitsAt(s, i) == IsDigitAt(s, i) /\ IsDigitAt(s, i + 1)

IsLeap(y) == (y % 4 = 0) /\ ((y % 100 # 0) \/ (y % 400 = 0))
DaysIn(m, y) ==
    IF m = 2 THEN (IF IsLeap(y) THEN 29 ELSE 28)
    ELSE IF m \in {4, 6, 9, 11} THEN 30 ELSE 31

NoTime ==
    [ok |-> FALSE, year |-> 0, month |-> 0, day |-> 0, hour |-> 0, min |-> 0,
     sec |-> 0, utc |-> FALSE, offset |-> 0]

\* The layout "2006-01-02T15:04:05Z07:00": four-digit year, two-digit month
\* and day, an hour of one or two digits, two-digit minute and second, an
\* optional fraction (. or , and digits), then Z or a signed hh:mm offset, and
\* nothing after it; every field in its range.
ParseRFC3339(s) ==
    IF ~( /\ TwoDigitsAt(s, 0) /\ TwoDigitsAt(s, 2) /\ IsCharAt(s, 4, "-")
          /\ TwoDigitsAt(s, 5) /\ IsCharAt(s, 7, "-")
          /\ TwoDigitsAt(s, 8) /\ IsCharAt(s, 10, "T")
          /\ IsDigitAt(s, 11) )
    THEN NoTime
    ELSE
    LET hlen == IF IsDigitAt(s, 12) THEN 2 ELSE 1
        hour == IF hlen = 2 THEN Num2At(s, 11) ELSE DigitVal(s[12])
        p == 11 + hlen      \* 0-based position after the hour
    IN
    IF ~( /\ IsCharAt(s, p, ":") /\ TwoDigitsAt(s, p + 1)
          /\ IsCharAt(s, p + 3, ":") /\ TwoDigitsAt(s, p + 4) )
    THEN NoTime
    ELSE
    LET q == p + 6          \* after the seconds
        hasFrac == (IsCharAt(s, q, ".") \/ IsCharAt(s, q, ",")) /\ IsDigitAt(s, q + 1)
        fracEnd == IF hasFrac
                   THEN CHOOSE e \in (q + 2)..Len(s) :
                          /\ \A k \in (q + 1)..(e - 1) : IsDigitAt(s, k)
                          /\ ~IsDigitAt(s, e)
                   ELSE q
        z == fracEnd        \* where the zone starts
        isZ == IsCharAt(s, z, "Z") /\ Len(s) = z + 1
        isOff == /\ (IsCharAt(s, z, "+") \/ IsCharAt(s, z, "-"))
                 /\ TwoDigitsAt(s, z + 1) /\ IsCharAt(s, z + 3, ":")
                 /\ TwoDigitsAt(s, z + 4) /\ Len(s) = z + 6
        zh == IF isOff THEN Num2At(s, z + 1) ELSE 0
        zm == IF isOff THEN Num2At(s, z + 4) ELSE 0
        year == Num4At(s, 0)
        month == Num2At(s, 5)
        day == Num2At(s, 8)
        min == Num2At(s, p + 1)
        sec == Num2At(s, p + 4)
    IN
    IF /\ (isZ \/ isOff)
       /\ month \in 1..12 /\ day >= 1 /\ day <= DaysIn(month, year)
       /\ hour < 24 /\ min < 60 /\ sec < 60
       /\ zh <= 24 /\ zm <= 60
    THEN [ok |-> TRUE, year |-> year, month |-> month, day |-> day, hour |-> hour,
          min |-> min, sec |-> sec, utc |-> isZ,
          offset |-> (IF isOff /\ s[z + 1] = "-" THEN -1 ELSE 1) * (60 * zh + zm)]
    ELSE NoTime

Fmt2(n) == <<DigitChars[((n \div 10) % 10) + 1], DigitChars[(n % 10) + 1]>>
Fmt4(n) == Fmt2(n \div 100) \o Fmt2(n % 100)

DayNames == << <<"S","u","n">>, <<"M","o","n">>, <<"T","u","e">>, <<"W","e","d">>,
               <<"T","h","u">>, <<"F","r","i">>, <<"S","a","t">> >>
MonthNames == << <<"J","a","n">>, <<"F","e","b">>, <<"M","a","r">>, <<"A","p","r">>,
                 <<"M","a","y">>, <<"J","u","n">>, <<"J","u","l">>, <<"A","u","g">>,
                 <<"S","e","p">>, <<"O","c","t">>, <<"N","o","v">>, <<"D","e","c">> >>
MonthShift == <<0, 3, 2, 5, 0, 3, 5, 1, 4, 6, 2, 4>>

\* 0 = Sunday
Weekday(y, m, d) ==
    LET yy == IF m < 3 THEN y - 1 ELSE y
    IN  (yy + (yy \div 4) - (yy \div 100) + (yy \div 400) + MonthShift[m] + d) % 7

\* The zone of a parsed time as Format prints "MST": UTC for Z, and for an
\* offset the local zone's name when the offset is the local one (the service
\* runs with Local = UTC) and otherwise the numeric form +hhmm.
ZoneName(t) ==
    IF t.utc \/ t.offset = 0 THEN <<"U","T","C">>
    ELSE LET a == IF t.offset < 0 THEN -t.offset ELSE t.offset
         IN  <<IF t.offset < 0 THEN "-" ELSE "+">> \o Fmt2(a \div 60) \o Fmt2(a % 60)

\* "Mon, 02 Jan 2006 15:04:05 MST"
FormatRFC1123(t) ==
    DayNames[Weekday(t.year, t.month, t.day) + 1] \o <<",", " ">> \o Fmt2(t.day)
      \o <<" ">> \o MonthNames[t.month] \o <<" ">> \o Fmt4(t.year) \o <<" ">>
      \o Fmt2(t.hour) \o <<":">> \o Fmt2(t.min) \o <<":">> \o Fmt2(t.sec)
      \o <<" ">> \o ZoneName(t)

----------------------------------------------------------------------------
(* FormatMessage *)

Summary == <<"s","u","m","m","a","r","y">>
Description == <<"d","e","s","c","r","i","p","t","i","o","n">>
AlertName == <<"a","l","e","r","t","n","a","m","e">>
StartsAtText == <<" ","a","l","e","r","t"," ","s","t","a","r","t","s"," ","a","t"," ">>
ResolvedText == <<"R","E","S","O","L","V","E","D",":"," ">>

\* The default of MaxMessageLength when it is unset or not positive.
DefaultMaxLen == 150

EffectiveMaxLen(config) ==
    IF config.MaxMessageLength <= 0 THEN DefaultMaxLen ELSE config.MaxMessageLength

\* The description wins when it is there.
SelectText_PreferDescription(alert) ==
    IF IsBlank(GetAnnotation(alert, Description))
    THEN GetAnnotation(alert, Summary)
    ELSE GetAnnotation(alert, Description)

\* The annotation the text is taken from: the summary unless it is blank.
SelectText(alert) ==
    IF IsBlank(GetAnnotation(alert, Summary))
    THEN GetAnnotation(alert, Description)
    ELSE GetAnnotation(alert, Summary)

\* The resolved marker is put on last, outside the custom prefix.
FormatBody_ResolvedOutermost(alert, status, config) ==
    LET b1 == FindAndReplaceLabels(SelectText(alert), alert)
        t  == ParseRFC3339(alert.StartsAt)
        b2 == IF alert.StartsAt # <<>> /\ t.ok
              THEN <<"\"">> \o b1 \o <<"\"">> \o StartsAtText \o FormatRFC1123(t)
              ELSE b1
        alertName == GetLabel(alert, AlertName)
        b3 == IF ~IsBlank(alertName) THEN <<"[">> \o alertName \o <<"]", " ">> \o b2 ELSE b2
        b4 == IF config.MessagePrefix # <<>> THEN config.MessagePrefix \o <<" ">> \o b3 ELSE b3
        b5 == IF status = "resolved" THEN ResolvedText \o b4 ELSE b4
    IN  b5

\* The text is quoted whether or not a timestamp follows it.
FormatBody_QuotesAlways(alert, status, config) ==
    LET b1 == FindAndReplaceLabels(SelectText(alert), alert)
        t  == ParseRFC3339(alert.StartsAt)
        b2 == IF alert.StartsAt # <<>> /\ t.ok
              THEN <<"\"">> \o b1 \o <<"\"">> \o StartsAtText \o FormatRFC1123(t)
              ELSE <<"\"">> \o b1 \o <<"\"">>
        alertName == GetLabel(alert, AlertName)
        b3 == IF ~IsBlank(alertName) THEN <<"[">> \o alertName \o <<"]", " ">> \o b2 ELSE b2
        b4 == IF status = "resolved" THEN ResolvedText \o b3 ELSE b3
        b5 == IF config.MessagePrefix # <<>> THEN config.MessagePrefix \o <<" ">> \o b4 ELSE b4
    IN  b5

\* FormatMessage's body before truncation (the alert has a text).
FormatBody(alert, status, config) ==
    LET b1 == FindAndReplaceLabels(SelectText(alert), alert)
        t  == ParseRFC3339(alert.StartsAt)
        b2 == IF alert.StartsAt # <<>> /\ t.ok
              THEN <<"\"">> \o b1 \o <<"\"">> \o StartsAtText \o FormatRFC1123(t)
              ELSE b1
        alertName == GetLabel(alert, AlertName)
        b3 == IF ~IsBlank(alertName) THEN <<"[">> \o alertName \o <<"]", " ">> \o b2 ELSE b2
        b4 == IF status = "resolved" THEN ResolvedText \o b3 ELSE b3
        b5 == IF config.MessagePrefix # <<>> THEN config.MessagePrefix \o <<" ">> \o b4 ELSE b4
    IN  b5

\* Go error values: nil, and the errors of FormatMessage and SendMessage by
\* the fmt.Errorf that builds them.
Nil == [kind |-> "nil", status |-> 0]
ErrMissing == [kind |-> "missing", status |-> 0]
ErrCreate == [kind |-> "create", status |-> 0]
ErrSend == [kind |-> "send", status |-> 0]
ErrRead == [kind |-> "read", status |-> 0]
ErrAPI(s) == [kind |-> "api", status |-> s]

\* The blank test without strings.TrimSpace.
FormatMessage_NoTrim(alert, status, config) ==
    IF SelectText(alert) = <<>>
    THEN [body |-> <<>>, err |-> ErrMissing]
    ELSE [body |-> TruncateMessage(FormatBody(alert, status, config), EffectiveMaxLen(config)),
          err |-> Nil]

\* The custom prefix is put on after the truncation.
FormatMessage_TruncateFirst(alert, status, config) ==
    IF IsBlank(SelectText(alert))
    THEN [body |-> <<>>, err |-> ErrMissing]
    ELSE LET bare == [config EXCEPT !.MessagePrefix = <<>>]
             cut == TruncateMessage(FormatBody(alert, status, bare), EffectiveMaxLen(config))
         IN  [body |-> IF config.MessagePrefix # <<>>
                       THEN config.MessagePrefix \o <<" ">> \o cut ELSE cut,
              err |-> Nil]

\* FormatMessage(alert, status, config): (body, err)
FormatMessage(alert, status, config) ==
    IF IsBlank(SelectText(alert))
    THEN [body |-> <<>>, err |-> ErrMissing]
    ELSE [body |-> TruncateMessage(FormatBody(alert, status, config), EffectiveMaxLen(config)),
          err |-> Nil]

----------------------------------------------------------------------------
(* TwilioHTTPClient.SendMessage *)

twilioMaxRetries == 3

\* backoff := []time.Duration{0, time.Second, 2 * time.Second}, in seconds;
\* Go indexes from 0, TLA+ from 1.
backoff == <<0, 1, 2>>


\* The HTTP statuses the provider is made to answer with (boundaries of the
\* classes the code tests: 2xx, 429, >= 500).
Statuses == {200, 201, 299, 300, 400, 404, 429, 499, 500, 503}

\* What one httpClient.Do + io.ReadAll can end in.  A transport error carries
\* whether it is a net error whose Timeout() is true and whether it is
\* context.DeadlineExceeded; a response carries its status and whether
\* reading its body failed (the request context is cancelled before the body
\* is read, so a read may fail whatever the status).
DoErrors ==
    { [kind |-> "neterr", status |-> 0, readErr |-> FALSE, timeout |-> TRUE, deadline |-> FALSE],
      [kind |-> "neterr", status |-> 0, readErr |-> FALSE, timeout |-> TRUE, deadline |-> TRUE],
      [kind |-> "neterr", status |-> 0, readErr |-> FALSE, timeout |-> FALSE, deadline |-> FALSE] }
Responses ==
    { [kind |-> "resp", status |-> s, readErr |-> r, timeout |-> FALSE, deadline |-> FALSE] :
        s \in Statuses, r \in BOOLEAN }
Outcomes == DoErrors \cup Responses
\* The iteration in which NewRequestWithContext fails issues no HTTP request.
NoRequest == [kind |-> "norequest", status |-> 0, readErr |-> FALSE, timeout |-> FALSE, deadline |-> FALSE]

isRetryableNetError(o) == (o.timeout) \/ o.deadline

\* The table indexed one slot too low.
SleepBefore_OffByOne(a) == IF a > 0 THEN backoff[a] ELSE 0

\* The delay SendMessage sleeps at the top of iteration `a` (0-based).
SleepBefore(a) == IF a > 0 THEN backoff[a + 1] ELSE 0

\* Every status from 400 up is retried.
AttemptResult_Retry4xx(urlOK, o) ==
    IF ~urlOK THEN [ret |-> TRUE, err |-> ErrCreate]
    ELSE IF o.kind = "neterr"
         THEN IF isRetryableNetError(o)
              THEN [ret |-> FALSE, err |-> ErrSend]
              ELSE [ret |-> TRUE, err |-> ErrSend]
    ELSE IF o.readErr THEN [ret |-> FALSE, err |-> ErrRead]
    ELSE IF o.status >= 200 /\ o.status < 300 THEN [ret |-> TRUE, err |-> Nil]
    ELSE IF o.status >= 400
         THEN [ret |-> FALSE, err |-> ErrAPI(o.status)]
         ELSE [ret |-> TRUE, err |-> ErrAPI(o.status)]

\* Only 200 counts as success.
AttemptResult_Only200(urlOK, o) ==
    IF ~urlOK THEN [ret |-> TRUE, err |-> ErrCreate]
    ELSE IF o.kind = "neterr"
         THEN IF isRetryableNetError(o)
              THEN [ret |-> FALSE, err |-> ErrSend]
              ELSE [ret |-> TRUE, err |-> ErrSend]
    ELSE IF o.readErr THEN [ret |-> FALSE, err |-> ErrRead]
    ELSE IF o.status = 200 THEN [ret |-> TRUE, err |-> Nil]
    ELSE IF o.status = 429 \/ o.status >= 500
         THEN [ret |-> FALSE, err |-> ErrAPI(o.status)]
         ELSE [ret |-> TRUE, err |-> ErrAPI(o.status)]

\* One pass through the loop body with the transport ending in o:
\* [ret |-> TRUE, err |-> e] for a return, [ret |-> FALSE, err |-> e] for
\* `continue` with lastErr = e.
AttemptResult(urlOK, o) ==
    IF ~urlOK THEN [ret |-> TRUE, err |-> ErrCreate]
    ELSE IF o.kind = "neterr"
         THEN IF isRetryableNetError(o)
              THEN [ret |-> FALSE, err |-> ErrSend]
              ELSE [ret |-> TRUE, err |-> ErrSend]
    ELSE IF o.readErr THEN [ret |-> FALSE, err |-> ErrRead]
    ELSE IF o.status >= 200 /\ o.status < 300 THEN [ret |-> TRUE, err |-> Nil]
    ELSE IF o.status = 429 \/ o.status >= 500
         THEN [ret |-> FALSE, err |-> ErrAPI(o.status)]
         ELSE [ret |-> TRUE, err |-> ErrAPI(o.status)]

\* The first error is kept.
Remember_KeepsFirst(last, err) == IF last = Nil THEN err ELSE last

\* lastErr = fmt.Errorf(...): the local lastErr after an attempt failed
\* with err.
Remember(last, err) == err

\* Whether the loop runs another iteration after iteration `a` continued.
LoopContinues(a) == a + 1 < twilioMaxRetries

ClientInit ==
    /\ c_pc = "idle"
    /\ c_urlOK \in BOOLEAN
    /\ attempt = 0
    /\ lastErr = Nil
    /\ c_ret = Nil
    /\ iterLog = <<>>

\* SendMessage is called: the locals are set up and the loop is entered.
ClientCall ==
    /\ c_pc = "idle"
    /\ c_pc' = "loop"
    /\ attempt' = 0
    /\ lastErr' = Nil
    /\ UNCHANGED <<c_urlOK, c_ret, iterLog>>
    /\ UNCHANGED <<rvars, hvars, tvars, fvars, lvars>>

\* One iteration of the loop: the sleep, the request, the classification,
\* and (on `continue` at the last iteration) the return after the loop.
ClientAttempt ==
    /\ c_pc = "loop"
    /\ attempt < twilioMaxRetries
    /\ \E o \in Outcomes :
         LET seen == IF c_urlOK THEN o ELSE NoRequest
             r == AttemptResult(c_urlOK, o)
         IN  /\ iterLog' = Append(iterLog, [delay |-> SleepBefore(attempt), out |-> seen])
             /\ lastErr' = IF r.ret /\ r.err = Nil THEN lastErr
                           ELSE IF r.ret /\ r.err = ErrCreate THEN lastErr
                           ELSE Remember(lastErr, r.err)
             /\ IF r.ret
                THEN /\ c_pc' = "returned"
                     \* return nil, return fmt.Errorf(...), or return lastErr
                     /\ c_ret' = IF r.err \in {Nil, ErrCreate} THEN r.err ELSE lastErr'
                     /\ attempt' = attempt
                ELSE IF LoopContinues(attempt)
                THEN /\ c_pc' = "loop"
                     /\ c_ret' = c_ret
                     /\ attempt' = attempt + 1
                ELSE /\ c_pc' = "returned"
                     \* return lastErr, after the loop
                     /\ c_ret' = lastErr'
                     /\ attempt' = attempt + 1
    /\ UNCHANGED c_urlOK
    /\ UNCHANGED <<rvars, hvars, tvars, fvars, lvars>>

ClientNext == ClientCall \/ ClientAttempt

----------------------------------------------------------------------------
(* RateLimiter *)

\* interval: time.Minute, in ticks of 20 s.
interval == 3

MaxCap == 2       \* largest capacity (requestsPerMinute) tried
MaxTime == 7      \* the clock stops here
NCallers == 2     \* concurrent callers of Allow()

Callers == 1..NCallers

\* The length of the run of requests the end-to-end test fires at a limiter
\* of capacity m: 35 for RATE_LIMIT=30, in the same proportion for the others.
RunLen(m) == m + ((m + 5) \div 6)

\* The history before any call: no reset, nothing granted, no burst begun.
NoHistory ==
    [resets |-> 0, grants |-> 0, calls |-> 0, due |-> [c \in Callers |-> FALSE],
     recent |-> [k \in 1..interval |-> 0], run |-> 0, prev |-> 0,
     burst |-> [on |-> FALSE, at |-> 0, n |-> 0, oks |-> 0, next |-> "none"]]

RLInit ==
    /\ max \in 1..MaxCap
    /\ tokens = max
    /\ lastFill = 0
    /\ now = 0
    /\ rl_mu = 0
    /\ rl_pc = [c \in Callers |-> "idle"]
    /\ rl_expired = [c \in Callers |-> FALSE]
    /\ rl_ret = [c \in Callers |-> "none"]
    /\ rl_hist = NoHistory

\* The limiter as RLInit makes it, with the bursts of calls followed: the
\* runs of the end-to-end test.
LoopInit ==
    /\ max \in 1..MaxCap
    /\ tokens = max
    /\ lastFill = 0
    /\ now = 0
    /\ rl_mu = 0
    /\ rl_pc = [c \in Callers |-> "idle"]
    /\ rl_expired = [c \in Callers |-> FALSE]
    /\ rl_ret = [c \in Callers |-> "none"]
    /\ rl_hist = [NoHistory EXCEPT !.burst.on = TRUE]

\* The window must be exceeded, not reached.
WindowExpired_Strict(since) == since > interval

\* time.Since(rl.lastFill) >= rl.interval
WindowExpired(since) == since >= interval

\* Lock() that never waits.
MutexFree_NoMutex(holder) == TRUE

\* rl.mu.Lock() returns only when no caller holds the mutex.
MutexFree(holder) == holder = 0

\* rl.mu.Lock()
AllowLock(c) ==
    /\ rl_pc[c] = "idle"
    /\ MutexFree(rl_mu)
    /\ rl_mu' = c
    /\ rl_pc' = [rl_pc EXCEPT ![c] = "check"]
    /\ rl_hist' = [rl_hist EXCEPT !.due[c] = (now - lastFill >= interval)]
    /\ UNCHANGED <<tokens, max, lastFill, rl_expired, rl_ret, now>>
    /\ UNCHANGED <<cvars, hvars, tvars, fvars, lvars>>

\* The caller evaluates the test of the window.
AllowCheck(c) ==
    /\ rl_pc[c] = "check"
    /\ rl_expired' = [rl_expired EXCEPT ![c] = WindowExpired(now - lastFill)]
    /\ rl_pc' = [rl_pc EXCEPT ![c] = "fill"]
    /\ UNCHANGED <<tokens, max, lastFill, rl_mu, rl_ret, now, rl_hist>>
    /\ UNCHANGED <<cvars, hvars, tvars, fvars, lvars>>

\* The test never fires.
OutOfTokens_Never(t) == FALSE

\* if rl.tokens <= 0 { return false }
OutOfTokens(t) == t <= 0

\* The burst the call returning now belongs to: the calls made since a first
\* one at most one tick ago; a later call begins a new burst.
BurstNow(hist) ==
    IF hist.burst.n = 0 \/ now - hist.burst.at > 1
    THEN [on |-> TRUE, at |-> now, n |-> 0, oks |-> 0, next |-> "none"]
    ELSE hist.burst

\* The burst after a call returned ok: the first RunLen(max) calls are the
\* run (n counts them, oks the granted ones), the call after them is next.
BurstAfter(b, ok) ==
    IF b.n < RunLen(max)
    THEN [b EXCEPT !.n = @ + 1, !.oks = @ + (IF ok THEN 1 ELSE 0)]
    ELSE IF b.next = "none" THEN [b EXCEPT !.next = IF ok THEN "true" ELSE "false"]
    ELSE b

\* The history kept for the properties: resets performed, and the calls
\* returned and granted since the last reset (calls saturates at max + 2),
\* and per caller whether a window length had elapsed since the last reset
\* when its call took the mutex; the grants of the last `interval` instants
\* (recent[1] those of the present one), the calls in a row that returned
\* true (run saturates at 2 * max + 1), the window start before the last
\* reset, and the burst of calls in progress.
Returned1(hist, ok) ==
    [hist EXCEPT !.grants = @ + (IF ok THEN 1 ELSE 0),
                 !.calls = IF @ < max + 2 THEN @ + 1 ELSE @,
                 !.recent[1] = IF ok /\ @ < 2 * max + 1 THEN @ + 1 ELSE @,
                 !.run = IF ~ok THEN 0 ELSE IF @ < 2 * max + 1 THEN @ + 1 ELSE @,
                 !.burst = IF @.on THEN BurstAfter(BurstNow(hist), ok) ELSE @]

\* The window start stays where it was.
WindowStart_Kept(old, t) == old

\* rl.lastFill = time.Now()
WindowStart(old, t) == t

\* The tokens are not refilled.
Refill_Nothing(m) == 0

\* rl.tokens = rl.max
Refill(m) == m

\* The refill when the window had expired: tokens = max, lastFill = time.Now().
AllowFill(c) ==
    /\ rl_pc[c] = "fill"
    /\ IF rl_expired[c]
       THEN /\ tokens' = Refill(max)
            /\ lastFill' = WindowStart(lastFill, now)
            /\ rl_hist' = [rl_hist EXCEPT !.resets = @ + 1, !.grants = 0, !.calls = 0,
                                          !.prev = lastFill]
       ELSE UNCHANGED <<tokens, lastFill, rl_hist>>
    /\ rl_pc' = [rl_pc EXCEPT ![c] = "test"]
    /\ UNCHANGED <<max, rl_mu, rl_expired, rl_ret, now>>
    /\ UNCHANGED <<cvars, hvars, tvars, fvars, lvars>>

\* The test of tokens: return false (with the deferred Unlock) or go on to
\* the decrement.
AllowTest(c) ==
    /\ rl_pc[c] = "test"
    /\ IF OutOfTokens(tokens)
       THEN /\ rl_ret' = [rl_ret EXCEPT ![c] = "false"]
            /\ rl_hist' = Returned1(rl_hist, FALSE)
            /\ rl_mu' = 0
            /\ rl_pc' = [rl_pc EXCEPT ![c] = "idle"]
       ELSE /\ rl_pc' = [rl_pc EXCEPT ![c] = "dec"]
            /\ UNCHANGED <<rl_ret, rl_hist, rl_mu>>
    /\ UNCHANGED <<tokens, max, lastFill, rl_expired, now>>
    /\ UNCHANGED <<cvars, hvars, tvars, fvars, lvars>>

\* The token is not taken.
Spend_Nothing(t) == t

\* rl.tokens--
Spend(t) == t - 1

\* rl.tokens--, return true and the deferred Unlock.
AllowFinish(c) ==
    /\ rl_pc[c] = "dec"
    /\ tokens' = Spend(tokens)
    /\ rl_ret' = [rl_ret EXCEPT ![c] = "true"]
    /\ rl_hist' = Returned1(rl_hist, TRUE)
    /\ rl_mu' = 0
    /\ rl_pc' = [rl_pc EXCEPT ![c] = "idle"]
    /\ UNCHANGED <<max, lastFill, rl_expired, now>>
    /\ UNCHANGED <<cvars, hvars, tvars, fvars, lvars>>

Tick ==
    /\ now < MaxTime
    /\ now' = now + 1
    /\ rl_hist' = [rl_hist EXCEPT !.recent = [k \in 1..interval |-> IF k = 1 THEN 0 ELSE @[k - 1]]]
    /\ UNCHANGED <<tokens, max, lastFill, rl_mu, rl_pc, rl_expired, rl_ret>>
    /\ UNCHANGED <<cvars, hvars, tvars, fvars, lvars>>

RLNext ==
    \/ \E c \in Callers : AllowLock(c)
    \/ \E c \in Callers : AllowCheck(c)
    \/ \E c \in Callers : AllowFill(c)
    \/ \E c \in Callers : AllowTest(c)
    \/ \E c \in Callers : AllowFinish(c)
    \/ Tick

----------------------------------------------------------------------------
(* ParseReceivers, the Content-Type test *)

RECURSIVE TrimNonEmpty(_)
TrimNonEmpty(parts) ==
    IF parts = <<>> THEN <<>>
    ELSE LET trimmed == TrimSpace(Head(parts))
         IN  (IF trimmed # <<>> THEN <<trimmed>> ELSE <<>>) \o TrimNonEmpty(Tail(parts))

ParseReceivers(receivers) ==
    IF receivers = <<>> THEN <<>> ELSE TrimNonEmpty(Split(receivers, ","))

AppJSON == <<"a","p","p","l","i","c","a","t","i","o","n","/","j","s","o","n">>

\* strings.HasPrefix(strings.ToLower(contentType), "application/json")
IsJSONContentType(ct) == HasPrefixAt(ToLower(ct), 0, AppJSON)

----------------------------------------------------------------------------
(* Handler.SendRequest, Handler.sendMessage *)

MaxRequests == 2    \* request slots of one handler
MaxAlerts == 2      \* alerts in one payload
MaxUnits == 4       \* goroutines of wg.Go alive at once

Reqs == 1..MaxRequests

\* ---- the inputs tried ----
RcvA == <<"+","1">>
RcvB == <<"+","2">>
RcvC == <<"+","3">>
SenderId == <<"+","9">>

AlertUp ==
    [Status |-> "firing",
     Labels |-> {<<AlertName, <<"U","p">> >>, << <<"j">>, <<"d","b">> >>},
     Annotations |-> {<<Summary, <<"$","l","a","b","e","l","s",".","j"," ","u","p">> >>},
     StartsAt |-> <<>>]
AlertDown ==
    [Status |-> "resolved",
     Labels |-> {},
     Annotations |-> {<<Summary, <<" ">> >>, <<Description, <<"d","n">> >>},
     StartsAt |-> <<"2","0","2","4","-","0","1","-","1","5","T","1","0",":","3","0",":","0","0","Z">>]
AlertBlank ==
    [Status |-> "firing",
     Labels |-> {<<AlertName, <<"B">> >>},
     Annotations |-> {<<Summary, <<" ">> >>, <<Description, <<"\t", " ">> >>},
     StartsAt |-> <<"x">>]
AlertPool == {AlertUp, AlertDown, AlertBlank}

RECURSIVE SeqsUpTo(_, _)
SeqsUpTo(S, n) ==
    IF n = 0 THEN {<<>>}
    ELSE LET shorter == SeqsUpTo(S, n - 1)
         IN  shorter \cup {Append(s, x) : s \in shorter, x \in S}

PayloadStatuses == {"firing", "resolved", "", "pending"}
Payloads ==
    {[Status |-> st, Alerts |-> al] : st \in PayloadStatuses, al \in SeqsUpTo(AlertPool, MaxAlerts)}
\* A body json.Unmarshal rejects.
Malformed == [Status |-> "malformed", Alerts |-> <<>>]

ContentTypes ==
    { <<"A","p","p","l","i","c","a","t","i","o","n","/","J","S","O","N",";"," ","x">>,
      <<"t","e","x","t","/","p","l","a","i","n">> }
\* Values of the query parameter `receiver`.
RcvParams == { <<>>, RcvB, RcvB \o <<",", " ">> \o RcvC \o <<",">>, <<" ", ",">> }

\* The body on the wire: docLen bytes of a JSON document (the field body of
\* the request says which), then white space up to size bytes.
SmallWire == [docLen |-> 200, size |-> 200]

Requests ==
    {[contentType |-> ct, body |-> b, receiver |-> rp, wire |-> SmallWire] :
        ct \in ContentTypes, b \in Payloads \cup {Malformed}, rp \in RcvParams}
NoRequestYet ==
    [contentType |-> <<>>, body |-> Malformed, receiver |-> <<>>, wire |-> SmallWire]

\* const maxBodySize = 5 << 20
maxBodySize == 5242880

\* Bodies around the cap: a document of exactly maxBodySize bytes, a small
\* document padded with white space beyond the cap, a document that itself
\* runs beyond the cap.
BigWires ==
    { [docLen |-> maxBodySize, size |-> maxBodySize],
      [docLen |-> 200, size |-> maxBodySize + 1000],
      [docLen |-> maxBodySize + 1000, size |-> maxBodySize + 1000] }

Configs ==
    {[SendResolved |-> sr, DryRun |-> dr, Receivers |-> <<RcvA>>, Sender |-> SenderId,
      MaxMessageLength |-> 0, MessagePrefix |-> <<>>,
      WebhookSecret |-> <<>>] : sr \in BOOLEAN, dr \in BOOLEAN}
    \cup
    {[SendResolved |-> FALSE, DryRun |-> FALSE, Receivers |-> <<>>, Sender |-> SenderId,
      MaxMessageLength |-> 0, MessagePrefix |-> <<>>,
      WebhookSecret |-> <<>>]}

\* The statuses the provider answers a unit's attempts with.
UnitOutcomes == {o \in Responses : ~o.readErr /\ o.status \in {201, 503}}

\* The requests and configurations of the runs with the limiter in front.
ServerRequests ==
    {rq \in Requests :
        /\ IsJSONContentType(rq.contentType)
        /\ rq.receiver = <<>>
        /\ rq.body \in {[Status |-> "firing", Alerts |-> <<AlertUp>>],
                        [Status |-> "firing", Alerts |-> <<AlertUp, AlertBlank>>],
                        [Status |-> "pending", Alerts |-> <<AlertUp>>]}}
    \cup
    \* one request for each validation of SendRequest to refuse
    {rq \in Requests :
        \/ /\ ~IsJSONContentType(rq.contentType) /\ rq.receiver = <<>>
           /\ rq.body = [Status |-> "firing", Alerts |-> <<AlertUp>>]
        \/ /\ IsJSONContentType(rq.contentType) /\ rq.receiver = <<>>
           /\ rq.body = Malformed
        \/ /\ IsJSONContentType(rq.contentType) /\ rq.receiver = <<" ", ",">>
           /\ rq.body = [Status |-> "firing", Alerts |-> <<AlertUp>>]}
    \cup
    \* bodies around the size cap
    {[rq EXCEPT !.wire = w] :
        rq \in {q \in Requests :
                   /\ IsJSONContentType(q.contentType) /\ q.receiver = <<>>
                   /\ q.body = [Status |-> "firing", Alerts |-> <<AlertUp>>]},
        w \in BigWires}
\* WEBHOOK_SECRET, and the values of the Authorization header tried: none,
\* the secret as bearer token, another token.
Secret == <<"s">>
Bearer(token) == <<"B","e","a","r","e","r"," ">> \o token
AuthHeaders == {<<>>, Bearer(Secret), Bearer(<<"x">>)}

ServerConfigs ==
    {[c EXCEPT !.WebhookSecret = Secret] :
        c \in {d \in Configs : d.Receivers # <<>> /\ ~d.SendResolved}}

\* The requests of the runs in which every goroutine is scheduled: firing
\* payloads of one or two alerts for one or two receivers.
LiveRequests ==
    {rq \in Requests :
        /\ IsJSONContentType(rq.contentType)
        /\ rq.receiver \in {<<>>, RcvB \o <<",", " ">> \o RcvC \o <<",">>}
        /\ rq.body \in {[Status |-> "firing", Alerts |-> <<AlertUp>>],
                        [Status |-> "firing", Alerts |-> <<AlertUp, AlertBlank>>],
                        [Status |-> "resolved", Alerts |-> <<AlertUp>>]}}

\* The requests the clients of a run send.
RequestPool(pool) ==
    IF pool = "all" THEN Requests
    ELSE IF pool = "server" THEN ServerRequests
    ELSE IF pool = "live" THEN LiveRequests
    ELSE {}

\* ---- the handler ----
NoResponse == [kind |-> "none", code |-> 0, success |-> FALSE, sent |-> 0, failed |-> 0, errors |-> <<>>]

\* http.Error(w, msg, code)
HTTPError(code) ==
    [kind |-> "text", code |-> code, success |-> FALSE, sent |-> 0, failed |-> 0, errors |-> <<>>]

WriteResponse_Always200(success, sent, failed, errors) ==
    [kind |-> "json", code |-> 200,
     success |-> success, sent |-> sent, failed |-> failed, errors |-> errors]

\* The end of SendRequest: WriteHeader(500) unless Success, then the JSON body.
WriteResponse(success, sent, failed, errors) ==
    [kind |-> "json", code |-> IF ~success THEN 500 ELSE 200,
     success |-> success, sent |-> sent, failed |-> failed, errors |-> errors]

\* The receivers of the query parameter are added to the configured ones.
ReceiversOf_DefaultsKept(rq, config) ==
    IF rq.receiver # <<>> THEN config.Receivers \o ParseReceivers(rq.receiver)
    ELSE config.Receivers

\* receivers := h.Config.Receivers, overridden by a non-empty query parameter
ReceiversOf(rq, config) ==
    IF rq.receiver # <<>> THEN ParseReceivers(rq.receiver) ELSE config.Receivers

ShouldProcess_AnyResolved(status, config) ==
    status = "firing" \/ status = "resolved"

ShouldProcess(status, config) ==
    status = "firing" \/ (status = "resolved" /\ config.SendResolved)

\* The goroutine reads a loop variable shared by all iterations.
CapturedRcv_Shared(receivers, j) == receivers[Len(receivers)]

\* rcv, a := receiver, alert: what the goroutine of alert i and receiver j
\* of the loops captures.
CapturedRcv(receivers, j) == receivers[j]
CapturedAlert(n, i) == i

\* The goroutines the two loops start, alert-major.
SpawnUnits(n, receivers) ==
    LET m == Len(receivers)
    IN  [k \in 1..(n * m) |->
           [a |-> CapturedAlert(n, ((k - 1) \div m) + 1),
            rcv |-> CapturedRcv(receivers, ((k - 1) % m) + 1),
            pc |-> "start", att |-> 0, err |-> Nil,
            calls |-> 0, to |-> <<>>, from |-> <<>>, body |-> <<>>]]

LiveUnits ==
    Cardinality({<<r, u>> \in Reqs \X (1..MaxUnits) :
                    u \in DOMAIN h_units[r] /\ h_units[r][u].pc # "done"})

HandlerInit ==
    /\ cfg \in Configs
    /\ metrics = [alertsProcessedTotal |-> 0, smsSentTotal |-> 0, smsFailedTotal |-> 0]
    /\ h_pc = [r \in Reqs |-> "none"]
    /\ h_in = [r \in Reqs |-> NoRequestYet]
    /\ h_units = [r \in Reqs |-> <<>>]
    /\ h_mu = [r \in Reqs |-> 0]
    /\ h_sent = [r \in Reqs |-> 0]
    /\ h_failed = [r \in Reqs |-> 0]
    /\ h_errs = [r \in Reqs |-> <<>>]
    /\ h_resp = [r \in Reqs |-> NoResponse]
    /\ h_left = 1
    /\ h_pool = "all"

\* body, err := io.ReadAll(io.LimitReader(r.Body, maxBodySize)): the number
\* of bytes in body (the reader reports EOF at the limit, never an error).
ReadBody(rq) == IF rq.wire.size < maxBodySize THEN rq.wire.size ELSE maxBodySize

\* json.Unmarshal(body, &payload): the payload, or Malformed on an error.
\* The bytes read hold the whole document followed by white space only, or
\* they stop inside the document (an object whose closing brace is missing).
Unmarshal(rq) ==
    IF ReadBody(rq) < rq.wire.docLen THEN Malformed ELSE rq.body

\* The empty receiver list is not looked for.
EarlyResponse_ReceiversUnchecked(rq, config) ==
    IF ~IsJSONContentType(rq.contentType) THEN HTTPError(406)
    ELSE IF Unmarshal(rq) = Malformed THEN HTTPError(400)
    ELSE IF ~ShouldProcess(Unmarshal(rq).Status, config) THEN WriteResponse(TRUE, 0, 0, <<>>)
    ELSE NoResponse

\* The response of the paths of SendRequest that return before any goroutine
\* is started: the content type, the body, the receivers, the status gate.
EarlyResponse(rq, config) ==
    IF ~IsJSONContentType(rq.contentType) THEN HTTPError(406)
    ELSE IF Unmarshal(rq) = Malformed THEN HTTPError(400)
    ELSE IF Len(ReceiversOf(rq, config)) = 0 THEN HTTPError(400)
    ELSE IF ~ShouldProcess(Unmarshal(rq).Status, config) THEN WriteResponse(TRUE, 0, 0, <<>>)
    ELSE NoResponse

\* SendRequest from its entry to wg.Wait (or to the response, on the paths
\* that start no goroutine).
SendRequest(r) ==
    /\ h_pc[r] = "none"
    /\ \A q \in 1..(r - 1) : h_pc[q] # "none"
    /\ h_left > 0
    /\ h_left' = h_left - 1
    /\ \E rq \in RequestPool(h_pool) :
         LET receivers == ReceiversOf(rq, cfg)
             n == Len(Unmarshal(rq).Alerts)
             early == EarlyResponse(rq, cfg)
         IN  /\ h_in' = [h_in EXCEPT ![r] = rq]
             /\ IF early # NoResponse
                THEN /\ h_resp' = [h_resp EXCEPT ![r] = early]
                     /\ h_pc' = [h_pc EXCEPT ![r] = "responded"]
                     /\ UNCHANGED <<metrics, h_units>>
                ELSE /\ LiveUnits + n * Len(receivers) <= MaxUnits
                     /\ metrics' = [metrics EXCEPT !.alertsProcessedTotal = @ + 1]
                     /\ h_units' = [h_units EXCEPT ![r] = SpawnUnits(n, receivers)]
                     /\ h_pc' = [h_pc EXCEPT ![r] = "wait"]
                     /\ UNCHANGED h_resp
    /\ UNCHANGED <<cfg, h_mu, h_sent, h_failed, h_errs, h_pool>>
    /\ UNCHANGED <<cvars, rvars, tvars, fvars, lvars>>

\* The alert's own status is handed to sendMessage.
FormatStatus_OfAlert(payload, alert) == alert.Status

\* status := payload.Status, the third argument of h.sendMessage(rcv, a, status)
FormatStatus(payload, alert) == payload.Status

\* The dry-run test comes before FormatMessage.
UnitStart_DryRunFirst(r, u) ==
    /\ h_pc[r] = "wait"
    /\ u \in DOMAIN h_units[r]
    /\ h_units[r][u].pc = "start"
    /\ LET unit == h_units[r][u]
           alert == h_in[r].body.Alerts[unit.a]
           f == FormatMessage(alert, h_in[r].body.Status, cfg)
       IN  h_units' = [h_units EXCEPT ![r][u] =
              IF cfg.DryRun THEN [unit EXCEPT !.pc = "ret", !.err = Nil]
              ELSE IF f.err # Nil THEN [unit EXCEPT !.pc = "ret", !.err = f.err]
              ELSE [unit EXCEPT !.pc = "send", !.calls = @ + 1, !.to = unit.rcv,
                                !.from = cfg.Sender, !.body = f.body]]
    /\ UNCHANGED <<cfg, metrics, h_pc, h_in, h_mu, h_sent, h_failed, h_errs, h_resp, h_left, h_pool>>
    /\ UNCHANGED <<cvars, rvars, tvars, fvars, lvars>>

\* mu.Lock() comes first in the goroutine, before sendMessage.
UnitStart_LockFirst(r, u) ==
    /\ h_pc[r] = "wait"
    /\ u \in DOMAIN h_units[r]
    /\ h_units[r][u].pc = "start"
    /\ h_mu[r] = 0
    /\ h_mu' = [h_mu EXCEPT ![r] = u]
    /\ LET unit == h_units[r][u]
           alert == h_in[r].body.Alerts[unit.a]
           f == FormatMessage(alert, h_in[r].body.Status, cfg)
       IN  h_units' = [h_units EXCEPT ![r][u] =
              IF f.err # Nil THEN [unit EXCEPT !.pc = "lock", !.err = f.err]
              ELSE IF cfg.DryRun THEN [unit EXCEPT !.pc = "lock", !.err = Nil]
              ELSE [unit EXCEPT !.pc = "send", !.calls = @ + 1, !.to = unit.rcv,
                                !.from = cfg.Sender, !.body = f.body]]
    /\ UNCHANGED <<cfg, metrics, h_pc, h_in, h_sent, h_failed, h_errs, h_resp, h_left, h_pool>>
    /\ UNCHANGED <<cvars, rvars, tvars, fvars, lvars>>

\* The goroutine enters sendMessage: FormatMessage, then the dry-run return
\* or the call of Client.SendMessage.
UnitStart(r, u) ==
    /\ h_pc[r] = "wait"
    /\ u \in DOMAIN h_units[r]
    /\ h_units[r][u].pc = "start"
    /\ LET unit == h_units[r][u]
           alert == h_in[r].body.Alerts[unit.a]
           f == FormatMessage(alert, FormatStatus(h_in[r].body, alert), cfg)
       IN  h_units' = [h_units EXCEPT ![r][u] =
              IF f.err # Nil THEN [unit EXCEPT !.pc = "ret", !.err = f.err]
              ELSE IF cfg.DryRun THEN [unit EXCEPT !.pc = "ret", !.err = Nil]
              ELSE [unit EXCEPT !.pc = "send", !.calls = @ + 1, !.to = unit.rcv,
                                !.from = cfg.Sender, !.body = f.body]]
    /\ UNCHANGED <<cfg, metrics, h_pc, h_in, h_mu, h_sent, h_failed, h_errs, h_resp, h_left, h_pool>>
    /\ UNCHANGED <<cvars, rvars, tvars, fvars, lvars>>

\* One iteration of SendMessage's loop inside the goroutine.
UnitAttempt(r, u) ==
    /\ u \in DOMAIN h_units[r]
    /\ h_units[r][u].pc = "send"
    /\ \E o \in UnitOutcomes :
         LET unit == h_units[r][u]
             res == AttemptResult(TRUE, o)
         IN  h_units' = [h_units EXCEPT ![r][u] =
                IF res.ret \/ ~LoopContinues(unit.att)
                THEN [unit EXCEPT !.pc = "ret", !.err = res.err, !.att = 0]
                ELSE [unit EXCEPT !.err = res.err, !.att = @ + 1]]
    /\ UNCHANGED <<cfg, metrics, h_pc, h_in, h_mu, h_sent, h_failed, h_errs, h_resp, h_left, h_pool>>
    /\ UNCHANGED <<cvars, rvars, tvars, fvars, lvars>>

\* mu.Lock() after sendMessage has returned
UnitLock(r, u) ==
    /\ u \in DOMAIN h_units[r]
    /\ h_units[r][u].pc = "ret"
    /\ h_mu[r] = 0
    /\ h_mu' = [h_mu EXCEPT ![r] = u]
    /\ h_units' = [h_units EXCEPT ![r][u].pc = "lock"]
    /\ UNCHANGED <<cfg, metrics, h_pc, h_in, h_sent, h_failed, h_errs, h_resp, h_left, h_pool>>
    /\ UNCHANGED <<cvars, rvars, tvars, fvars, lvars>>

\* The entry names no receiver.
ErrorEntry_NoReceiver(rcv, sendErr) == [to |-> <<>>, cause |-> sendErr]

\* The entry appended to sendErrors: "Failed to send to <rcv>: <sendErr>",
\* kept as the two values put into the fixed text.
ErrorEntry(rcv, sendErr) == [to |-> rcv, cause |-> sendErr]

\* The critical section on the locals sent, failed and sendErrors for a unit
\* to rcv whose sendMessage returned sendErr.
Tally_DropsFormatErrors(sent, failed, errs, rcv, sendErr) ==
    IF sendErr = ErrMissing THEN [sent |-> sent, failed |-> failed, errs |-> errs]
    ELSE IF sendErr # Nil
    THEN [sent |-> sent, failed |-> failed + 1, errs |-> Append(errs, ErrorEntry(rcv, sendErr))]
    ELSE [sent |-> sent + 1, failed |-> failed, errs |-> errs]

Tally(sent, failed, errs, rcv, sendErr) ==
    IF sendErr # Nil
    THEN [sent |-> sent, failed |-> failed + 1, errs |-> Append(errs, ErrorEntry(rcv, sendErr))]
    ELSE [sent |-> sent + 1, failed |-> failed, errs |-> errs]

\* The counters move in dry-run mode too.
CountSMS_DryRunCounted(m, dryRun, sendErr) ==
    IF sendErr # Nil
    THEN [m EXCEPT !.smsFailedTotal = @ + 1]
    ELSE [m EXCEPT !.smsSentTotal = @ + 1]

\* Failures are not counted.
CountSMS_SentOnly(m, dryRun, sendErr) ==
    IF dryRun \/ sendErr # Nil THEN m
    ELSE [m EXCEPT !.smsSentTotal = @ + 1]

\* h.metrics.IncSMSFailed() / h.metrics.IncSMSSent() unless DryRun: atomic adds.
CountSMS(m, dryRun, sendErr) ==
    IF dryRun THEN m
    ELSE IF sendErr # Nil
    THEN [m EXCEPT !.smsFailedTotal = @ + 1]
    ELSE [m EXCEPT !.smsSentTotal = @ + 1]

\* The tallies are fields of the handler, one set for all requests.
Locals_OnHandler(r) == 1

\* var sendErrors []string; var sent, failed int: locals of the invocation
\* of SendRequest that serves request r, which its goroutines capture.
Locals(r) == r

\* The goroutine ends with the mutex still held.
Unlock_Forgotten(mu, r) == mu

\* defer mu.Unlock(): runs when the goroutine's function returns.
Unlock(mu, r) == [mu EXCEPT ![r] = 0]

\* The critical section, the deferred mu.Unlock() and the end of the goroutine.
UnitRecord(r, u) ==
    /\ u \in DOMAIN h_units[r]
    /\ h_units[r][u].pc = "lock"
    /\ h_mu[r] = u
    /\ LET unit == h_units[r][u]
           own == Locals(r)
           t == Tally(h_sent[own], h_failed[own], h_errs[own], unit.rcv, unit.err)
       IN  /\ h_sent' = [h_sent EXCEPT ![own] = t.sent]
           /\ h_failed' = [h_failed EXCEPT ![own] = t.failed]
           /\ h_errs' = [h_errs EXCEPT ![own] = t.errs]
           /\ metrics' = CountSMS(metrics, cfg.DryRun, unit.err)
    /\ h_mu' = Unlock(h_mu, r)
    \* the unit keeps the value sendMessage returned to it, as history
    /\ h_units' = [h_units EXCEPT ![r][u].pc = "done"]
    /\ UNCHANGED <<cfg, h_pc, h_in, h_resp, h_left, h_pool>>
    /\ UNCHANGED <<cvars, rvars, tvars, fvars, lvars>>

WaitReturns_NoWait(r) == TRUE

\* wg.Wait() returns: every goroutine started by wg.Go has ended.
WaitReturns(r) == \A u \in DOMAIN h_units[r] : h_units[r][u].pc = "done"

\* After wg.Wait: the locals are copied to the response and it is written.
Respond(r) ==
    /\ h_pc[r] = "wait"
    /\ WaitReturns(r)
    /\ h_resp' = [h_resp EXCEPT ![r] =
                    LET own == Locals(r)
                    IN  WriteResponse(h_failed[own] = 0, h_sent[own], h_failed[own], h_errs[own])]
    /\ h_pc' = [h_pc EXCEPT ![r] = "responded"]
    /\ UNCHANGED <<cfg, metrics, h_in, h_units, h_mu, h_sent, h_failed, h_errs, h_left, h_pool>>
    /\ UNCHANGED <<cvars, rvars, tvars, fvars, lvars>>

Next ==
    \/ \E r \in Reqs : SendRequest(r)
    \/ \E r \in Reqs : \E u \in 1..MaxUnits : UnitStart(r, u)
    \/ \E r \in Reqs : \E u \in 1..MaxUnits : UnitAttempt(r, u)
    \/ \E r \in Reqs : \E u \in 1..MaxUnits : UnitLock(r, u)
    \/ \E r \in Reqs : \E u \in 1..MaxUnits : UnitRecord(r, u)
    \/ \E r \in Reqs : Respond(r)

\* One handler serving one request, for the runs in which every goroutine
\* is scheduled.
LiveInit ==
    /\ cfg \in {c \in Configs : c.Receivers # <<>>}
    /\ metrics = [alertsProcessedTotal |-> 0, smsSentTotal |-> 0, smsFailedTotal |-> 0]
    /\ h_pc = [r \in Reqs |-> "none"]
    /\ h_in = [r \in Reqs |-> NoRequestYet]
    /\ h_units = [r \in Reqs |-> <<>>]
    /\ h_mu = [r \in Reqs |-> 0]
    /\ h_sent = [r \in Reqs |-> 0]
    /\ h_failed = [r \in Reqs |-> 0]
    /\ h_errs = [r \in Reqs |-> <<>>]
    /\ h_resp = [r \in Reqs |-> NoResponse]
    /\ h_left = 1
    /\ h_pool = "live"

\* ENABLED <<UnitStart(r, u)>>_vars: a goroutine wg.Go has started and that
\* has not yet entered sendMessage.
StartEnabled(r, u) ==
    /\ h_pc[r] = "wait"
    /\ u \in DOMAIN h_units[r]
    /\ h_units[r][u].pc = "start"

\* The Go scheduler runs every runnable goroutine, each HTTP attempt returns
\* (http.Client.Timeout bounds it), sync.Mutex hands the lock to a waiter
\* once it is free for good, and wg.Wait returns once the count is zero.
\* The conjunct for UnitStart is WF_vars(UnitStart(r, u)) with its ENABLED
\* written out as StartEnabled.
Fairness ==
    \A r \in Reqs :
        /\ WF_vars(Respond(r))
        /\ \A u \in 1..MaxUnits :
              /\ ([]<>(~StartEnabled(r, u))) \/ ([]<><<UnitStart(r, u)>>_vars)
              /\ WF_vars(UnitAttempt(r, u))
              /\ WF_vars(UnitLock(r, u))
              /\ WF_vars(UnitRecord(r, u))

HandlerOff ==
    /\ cfg = [SendResolved |-> FALSE, DryRun |-> FALSE, Receivers |-> <<>>,
              Sender |-> SenderId, MaxMessageLength |-> 0, MessagePrefix |-> <<>>,
              WebhookSecret |-> <<>>]
    /\ metrics = [alertsProcessedTotal |-> 0, smsSentTotal |-> 0, smsFailedTotal |-> 0]
    /\ h_pc = [r \in Reqs |-> "none"]
    /\ h_in = [r \in Reqs |-> NoRequestYet]
    /\ h_units = [r \in Reqs |-> <<>>]
    /\ h_mu = [r \in Reqs |-> 0]
    /\ h_sent = [r \in Reqs |-> 0]
    /\ h_failed = [r \in Reqs |-> 0]
    /\ h_errs = [r \in Reqs |-> <<>>]
    /\ h_resp = [r \in Reqs |-> NoResponse]
    /\ h_left = 0
    /\ h_pool = "none"

----------------------------------------------------------------------------
(* RateLimiter.Wrap in front of Handler.SendRequest (RegisterRoutes) *)

\* Every request is let through.
Admitted_Always(ret) == TRUE

\* if !rl.Allow() { 429 } else { next.ServeHTTP }
Admitted(ret) == ret = "true"

\* New with RateLimit > 0, and the clients' requests not yet sent.
ServerInit ==
    /\ cfg \in ServerConfigs
    /\ metrics = [alertsProcessedTotal |-> 0, smsSentTotal |-> 0, smsFailedTotal |-> 0]
    /\ h_pc = [r \in Reqs |-> "none"]
    /\ h_in = [r \in Reqs |-> NoRequestYet]
    /\ h_units = [r \in Reqs |-> <<>>]
    /\ h_mu = [r \in Reqs |-> 0]
    /\ h_sent = [r \in Reqs |-> 0]
    /\ h_failed = [r \in Reqs |-> 0]
    /\ h_errs = [r \in Reqs |-> <<>>]
    /\ h_resp = [r \in Reqs |-> NoResponse]
    /\ h_left = MaxRequests
    /\ h_pool = "server"

\* Request r has reached the route.
Entered(r) == rl_ret[r] # "none" \/ rl_pc[r] # "idle" \/ h_pc[r] # "none"

\* The Authorization header carries the secret as bearer token.
Authorized(secret, header) == header = Bearer(secret)

\* The limiter is the outer handler: the auth check runs on the requests
\* Allow() has let through.
AuthChecked_InsideLimiter(r) == rl_pc[r] = "idle" /\ rl_ret[r] = "true" /\ h_pc[r] = "none"

\* sendHandler = RequireWebhookAuth(secret, rateLimiter.Wrap(sendHandler)):
\* the auth check is the first thing a request meets.
AuthChecked(r) == ~Entered(r) /\ \A q \in 1..(r - 1) : Entered(q)

\* RequireWebhookAuth with a missing or wrong Authorization header: 401,
\* and the handler it wraps is not called.
AuthReject(r) ==
    /\ cfg.WebhookSecret # <<>>
    /\ AuthChecked(r)
    /\ \E header \in AuthHeaders : ~Authorized(cfg.WebhookSecret, header)
    /\ h_resp' = [h_resp EXCEPT ![r] = HTTPError(401)]
    /\ h_pc' = [h_pc EXCEPT ![r] = "responded"]
    /\ UNCHANGED <<cfg, metrics, h_in, h_units, h_mu, h_sent, h_failed, h_errs, h_left, h_pool>>
    /\ UNCHANGED <<cvars, rvars, tvars, fvars, lvars>>

\* Request r, with no secret configured or the right Authorization header,
\* reaches the wrapped route and calls rl.Allow().
WrapEnter(r) ==
    /\ r \in Callers
    /\ ~Entered(r)
    /\ \A q \in 1..(r - 1) : Entered(q)
    /\ cfg.WebhookSecret # <<>> => \E header \in AuthHeaders : Authorized(cfg.WebhookSecret, header)
    /\ AllowLock(r)

\* Allow() returned false: http.Error(w, "rate limit exceeded", 429), return.
WrapReject(r) ==
    /\ r \in Callers
    /\ rl_pc[r] = "idle" /\ rl_ret[r] # "none"
    /\ ~Admitted(rl_ret[r])
    /\ h_pc[r] = "none"
    /\ h_resp' = [h_resp EXCEPT ![r] = HTTPError(429)]
    /\ h_pc' = [h_pc EXCEPT ![r] = "responded"]
    /\ UNCHANGED <<cfg, metrics, h_in, h_units, h_mu, h_sent, h_failed, h_errs, h_left, h_pool>>
    /\ UNCHANGED <<cvars, rvars, tvars, fvars, lvars>>

\* Allow() returned true: next.ServeHTTP(w, r), the send handler.
WrapServe(r) ==
    /\ r \in Callers
    /\ rl_pc[r] = "idle" /\ rl_ret[r] # "none"
    /\ Admitted(rl_ret[r])
    /\ SendRequest(r)

\* The clock stands still in these runs: all requests fall in one window.
ServerNext ==
    \/ \E r \in Reqs : AuthReject(r)
    \/ \E r \in Reqs : WrapEnter(r)
    \/ \E c \in Callers : AllowCheck(c)
    \/ \E c \in Callers : AllowFill(c)
    \/ \E c \in Callers : AllowTest(c)
    \/ \E c \in Callers : AllowFinish(c)
    \/ \E r \in Reqs : WrapReject(r)
    \/ \E r \in Reqs : WrapServe(r)
    \/ \E r \in Reqs : \E u \in 1..MaxUnits : UnitStart(r, u)
    \/ \E r \in Reqs : \E u \in 1..MaxUnits : UnitAttempt(r, u)
    \/ \E r \in Reqs : \E u \in 1..MaxUnits : UnitLock(r, u)
    \/ \E r \in Reqs : \E u \in 1..MaxUnits : UnitRecord(r, u)
    \/ \E r \in Reqs : Respond(r)

----------------------------------------------------------------------------
(* TruncateMessage called on an input, and again on its result *)

MaxStrLen == 6     \* longest message tried

TruncChars == {"a", "."}
TruncMessages == SeqsUpTo(TruncChars, MaxStrLen)
TruncLens == (0 - 1)..(MaxStrLen + 1)

\* msg[:maxLen] panics at run time when the bound is negative.
TruncatePanics(msg, maxLen) == Len(msg) > maxLen /\ maxLen < 0

\* What a call of TruncateMessage ends in.
TruncateOutcome(msg, maxLen) ==
    IF TruncatePanics(msg, maxLen) THEN [panic |-> TRUE, out |-> <<>>]
    ELSE [panic |-> FALSE, out |-> TruncateMessage(msg, maxLen)]

NoOutcome == [panic |-> FALSE, out |-> <<>>]

TruncInit ==
    /\ t_pc = "ready"
    /\ t_msg \in TruncMessages
    /\ t_maxLen \in TruncLens
    /\ t_out = NoOutcome
    /\ t_again = NoOutcome

TruncateCall ==
    /\ t_pc = "ready"
    /\ t_out' = TruncateOutcome(t_msg, t_maxLen)
    /\ t_pc' = "once"
    /\ UNCHANGED <<t_msg, t_maxLen, t_again>>
    /\ UNCHANGED <<cvars, rvars, hvars, fvars, lvars>>

TruncateAgain ==
    /\ t_pc = "once"
    /\ ~t_out.panic
    /\ t_again' = TruncateOutcome(t_out.out, t_maxLen)
    /\ t_pc' = "twice"
    /\ UNCHANGED <<t_msg, t_maxLen, t_out>>
    /\ UNCHANGED <<cvars, rvars, hvars, fvars, lvars>>

TruncNext == TruncateCall \/ TruncateAgain

TruncOff ==
    /\ t_pc = "off" /\ t_msg = <<>> /\ t_maxLen = 0
    /\ t_out = NoOutcome /\ t_again = NoOutcome

----------------------------------------------------------------------------
(* FormatMessage on an alert, and Handler.sendMessage handing the body on *)

\* A text longer than the default maximum.
LongText == [i \in 1..(DefaultMaxLen + 10) |-> "x"]

FmtSummaries ==
    { <<>>, <<" ">>, <<"h","i">>, <<"$","l","a","b","e","l","s",".","j"," ","u","p">>, LongText }
FmtDescriptions == { <<"\t">>, <<"d","n">> }
FmtAnnotations ==
    { s \cup d : s \in {{}} \cup {{<<Summary, v>>} : v \in FmtSummaries},
                 d \in {{}} \cup {{<<Description, v>>} : v \in FmtDescriptions} }
FmtLabels ==
    { {<< <<"j">>, <<"d","b">> >>} \cup n :
        n \in {{}} \cup {{<<AlertName, v>>} : v \in { <<" ">>, <<"U","p">> }} }
FmtStartsAt ==
    { <<>>, <<"x">>,
      <<"2","0","2","4","-","0","2","-","3","0","T","1","0",":","3","0",":","0","0","Z">>,
      <<"2","0","2","4","-","0","1","-","1","5","T","1","0",":","3","0",":","0","0","Z">> }
FmtAlerts ==
    { [Status |-> "firing", Labels |-> l, Annotations |-> a, StartsAt |-> s] :
        l \in FmtLabels, a \in FmtAnnotations, s \in FmtStartsAt }
FmtStatuses == {"firing", "resolved"}
FmtPrefixes == { <<>>, <<"P">>, <<"[","p","r","o","d","u","c","t","i","o","n","]">> }
FmtMaxLens == { 0 - 1, 0, 3, 4, 9, 40 }
FmtConfigs ==
    { [SendResolved |-> TRUE, DryRun |-> dr, Receivers |-> <<RcvA>>, Sender |-> SenderId,
       MaxMessageLength |-> ml, MessagePrefix |-> p] :
        dr \in BOOLEAN, ml \in FmtMaxLens, p \in FmtPrefixes }

NoResult == [body |-> <<>>, err |-> Nil]
NothingHanded == [kind |-> "none", to |-> <<>>, body |-> <<>>]

FmtInit ==
    /\ f_pc = "ready"
    /\ f_alert \in FmtAlerts
    /\ f_status \in FmtStatuses
    /\ f_cfg \in FmtConfigs
    /\ f_raw = <<>>
    /\ f_out = NoResult
    /\ f_handed = NothingHanded

\* body, err := FormatMessage(alert, status, h.Config); f_raw keeps the
\* local body as it stands before TruncateMessage.
FormatCall ==
    /\ f_pc = "ready"
    /\ f_out' = FormatMessage(f_alert, f_status, f_cfg)
    /\ f_raw' = IF IsBlank(SelectText(f_alert)) THEN <<>>
                ELSE FormatBody(f_alert, f_status, f_cfg)
    /\ f_pc' = "formatted"
    /\ UNCHANGED <<f_alert, f_status, f_cfg, f_handed>>
    /\ UNCHANGED <<cvars, rvars, hvars, tvars, lvars>>

\* The rest of sendMessage: return the error, log the body in dry-run, or
\* call Client.SendMessage(receiver, Sender, body).
HandOver ==
    /\ f_pc = "formatted"
    /\ f_handed' = IF f_out.err # Nil THEN NothingHanded
                   ELSE [kind |-> IF f_cfg.DryRun THEN "log" ELSE "send",
                         to |-> RcvA, body |-> f_out.body]
    /\ f_pc' = "handed"
    /\ UNCHANGED <<f_alert, f_status, f_cfg, f_raw, f_out>>
    /\ UNCHANGED <<cvars, rvars, hvars, tvars, lvars>>

FmtNext == FormatCall \/ HandOver

FormatOff ==
    /\ f_pc = "off" /\ f_alert = AlertUp /\ f_status = "firing"
    /\ f_cfg = [SendResolved |-> FALSE, DryRun |-> FALSE, Receivers |-> <<>>,
                Sender |-> SenderId, MaxMessageLength |-> 0, MessagePrefix |-> <<>>,
                WebhookSecret |-> <<>>]
    /\ f_raw = <<>> /\ f_out = NoResult /\ f_handed = NothingHanded

----------------------------------------------------------------------------
(* FindAndReplaceLabels on a text *)

\* Texts are made of at most MaxPieces pieces: placeholders, one of them a
\* prefix of another, a placeholder without a label, pieces the pattern does
\* not match, and plain characters.
MaxPieces == 3
LabelPieces ==
    { <<"$","l","a","b","e","l","s",".","a">>,
      <<"$","l","a","b","e","l","s",".","a","b">>,
      <<"$","l","a","b","e","l","s",".","b">>,
      <<"$","l","a","b","e","l","s",".","m">>,
      <<"$","l","a","b","e","l","s",".">>,
      <<"$","l","a","b","e","l","s",".","1">>,
      <<"x">>, <<" ">> }

RECURSIVE Concat(_)
Concat(ps) == IF ps = <<>> THEN <<>> ELSE Head(ps) \o Concat(Tail(ps))

LabelTexts == { Concat(ps) : ps \in SeqsUpTo(LabelPieces, MaxPieces) }

\* The labels a, ab and b; a value may itself read as a placeholder.
LabelSets ==
    { { << <<"a">>, va >>, << <<"a","b">>, <<"Y">> >>, << <<"b">>, vb >> } :
        va \in { <<"X">>, <<>>, <<"$","l","a","b","e","l","s",".","b">> },
        vb \in { <<"Z">>, <<"$","l","a","b","e","l","s",".","a">> } }

LabelAlerts ==
    { [Status |-> "firing", Labels |-> l, Annotations |-> {}, StartsAt |-> <<>>] :
        l \in LabelSets }

LabelsInit ==
    /\ l_pc = "ready"
    /\ l_body \in LabelTexts
    /\ l_alert \in LabelAlerts
    /\ l_out = <<>>

\* body = FindAndReplaceLabels(body, alert)
InterpolateCall ==
    /\ l_pc = "ready"
    /\ l_out' = FindAndReplaceLabels(l_body, l_alert)
    /\ l_pc' = "done"
    /\ UNCHANGED <<l_body, l_alert>>
    /\ UNCHANGED <<cvars, rvars, hvars, tvars, fvars>>

LabelsNext == InterpolateCall

LabelsOff ==
    /\ l_pc = "off" /\ l_body = <<>> /\ l_alert = AlertUp /\ l_out = <<>>

----------------------------------------------------------------------------
(* The specifications: each runs one machine and parks the others *)

RLOff ==
    /\ max = 0 /\ tokens = 0 /\ lastFill = 0 /\ now = 0 /\ rl_mu = 0
    /\ rl_pc = [c \in Callers |-> "idle"]
    /\ rl_expired = [c \in Callers |-> FALSE]
    /\ rl_ret = [c \in Callers |-> "none"]
    /\ rl_hist = NoHistory

ClientOff ==
    /\ c_pc = "off" /\ c_urlOK = TRUE /\ attempt = 0 /\ lastErr = Nil
    /\ c_ret = Nil /\ iterLog = <<>>

InitClient == ClientInit /\ RLOff /\ HandlerOff /\ TruncOff /\ FormatOff /\ LabelsOff
SpecClient == InitClient /\ [][ClientNext]_vars

InitLimiter == RLInit /\ ClientOff /\ HandlerOff /\ TruncOff /\ FormatOff /\ LabelsOff
SpecLimiter == InitLimiter /\ [][RLNext]_vars

Init == HandlerInit /\ ClientOff /\ RLOff /\ TruncOff /\ FormatOff /\ LabelsOff
Spec == Init /\ [][Next]_vars

InitLoop == LoopInit /\ ClientOff /\ HandlerOff /\ TruncOff /\ FormatOff /\ LabelsOff
SpecLoop == InitLoop /\ [][RLNext]_vars

InitLive == LiveInit /\ ClientOff /\ RLOff /\ TruncOff /\ FormatOff /\ LabelsOff
SpecLive == InitLive /\ [][Next]_vars /\ Fairness

InitServer == ServerInit /\ RLInit /\ ClientOff /\ TruncOff /\ FormatOff /\ LabelsOff
SpecServer == InitServer /\ [][ServerNext]_vars

InitTruncate == TruncInit /\ ClientOff /\ RLOff /\ HandlerOff /\ FormatOff /\ LabelsOff
SpecTruncate == InitTruncate /\ [][TruncNext]_vars

InitFormat == FmtInit /\ ClientOff /\ RLOff /\ HandlerOff /\ TruncOff /\ LabelsOff
SpecFormat == InitFormat /\ [][FmtNext]_vars

InitLabels == LabelsInit /\ ClientOff /\ RLOff /\ HandlerOff /\ TruncOff /\ FormatOff
SpecLabels == InitLabels /\ [][LabelsNext]_vars
----------------------------------------------------------------------------
(* Properties of Handler.SendRequest (under Spec) *)

Alerts(r) == h_in[r].body.Alerts
Rcvs(r) == ReceiversOf(h_in[r], cfg)
PayloadStatus(r) == h_in[r].body.Status
Arrived(r) == h_pc[r] # "none"
Responded(r) == h_pc[r] = "responded"

\* The request passed the three validations of SendRequest.
Validated(r) ==
    /\ Arrived(r)
    /\ IsJSONContentType(h_in[r].contentType)
    /\ Unmarshal(h_in[r]) # Malformed
    /\ Len(Rcvs(r)) > 0

\* The status gate, as the claims word it.
GateOpen(r) ==
    \/ PayloadStatus(r) = "firing"
    \/ (PayloadStatus(r) = "resolved" /\ cfg.SendResolved)

\* Both annotations of the unit's alert are blank or absent.
BlankAlert(alert) ==
    /\ IsBlank(GetAnnotation(alert, Summary))
    /\ IsBlank(GetAnnotation(alert, Description))

UnitsOf(r) == DOMAIN h_units[r]
UnitAlert(r, u) == Alerts(r)[h_units[r][u].a]

\* C1: a validated request that passes the gate with N alerts and M
\* receivers answers sent + failed = N * M (N = 0 included), whatever the
\* interleaving of its units; a validated request the gate skips answers
\* sent = 0 and failed = 0.
C1_SentPlusFailed ==
    \A r \in Reqs :
        (Responded(r) /\ Validated(r)) =>
            IF GateOpen(r)
            THEN /\ h_resp[r].kind = "json"
                 /\ h_resp[r].sent + h_resp[r].failed = Len(Alerts(r)) * Len(Rcvs(r))
            ELSE /\ h_resp[r].kind = "json"
                 /\ h_resp[r].sent = 0
                 /\ h_resp[r].failed = 0

\* Reached: a 2 x 2 dispatch answered with both a sent and a failed unit.
C1_Witness ==
    \E r \in Reqs :
        /\ Responded(r) /\ Validated(r) /\ GateOpen(r)
        /\ Len(Alerts(r)) = 2 /\ Len(Rcvs(r)) = 2
        /\ h_resp[r].sent > 0 /\ h_resp[r].failed > 0

\* C2: in every JSON response success = (failed = 0), the status is 500
\* exactly when failed > 0 and 200 otherwise, and the body carries the counts
\* of the dispatch in both cases.
C2_SuccessAndStatus ==
    \A r \in Reqs :
        /\ h_resp[r].kind = "json" =>
              /\ h_resp[r].success = (h_resp[r].failed = 0)
              /\ (h_resp[r].code = 500) = (h_resp[r].failed > 0)
              /\ (h_resp[r].code = 200) = (h_resp[r].failed = 0)
        /\ (Responded(r) /\ Validated(r)) =>
              /\ h_resp[r].kind = "json"
              /\ h_resp[r].sent = h_sent[r]
              /\ h_resp[r].failed = h_failed[r]

\* Reached: a 500 whose JSON body reports a partial result.
C2_Witness ==
    \E r \in Reqs :
        /\ h_resp[r].kind = "json" /\ h_resp[r].code = 500
        /\ h_resp[r].sent > 0 /\ h_resp[r].failed > 0

\* C3: of the validated requests, only those whose payload status is
\* "firing", or "resolved" with SendResolved on, are dispatched; for every
\* other status no goroutine is started (nothing is formatted or sent), no
\* counter moves, and the answer is 200 with success, sent = 0, failed = 0.
C3_StatusGate ==
    \A r \in Reqs :
        Validated(r) =>
            IF GateOpen(r)
            THEN metrics.alertsProcessedTotal > 0
            ELSE /\ h_units[r] = <<>>
                 /\ h_pc[r] = "responded"
                 /\ h_resp[r] = [kind |-> "json", code |-> 200, success |-> TRUE,
                                 sent |-> 0, failed |-> 0, errors |-> <<>>]
                 /\ h_sent[r] = 0 /\ h_failed[r] = 0 /\ h_errs[r] = <<>>
                 /\ metrics = [alertsProcessedTotal |-> 0, smsSentTotal |-> 0,
                               smsFailedTotal |-> 0]

\* Reached: a resolved payload with alerts, skipped because SendResolved is off.
C3_Witness ==
    \E r \in Reqs :
        /\ Validated(r) /\ Responded(r)
        /\ PayloadStatus(r) = "resolved" /\ ~cfg.SendResolved
        /\ Len(Alerts(r)) = 2
        /\ h_resp[r].code = 200

\* The invocations of Client.SendMessage(to, from, body) made by the units
\* of r with these arguments.
Invocations(r, to, from, body) ==
    Cardinality({u \in UnitsOf(r) :
        /\ h_units[r][u].calls > 0
        /\ h_units[r][u].to = to /\ h_units[r][u].from = from /\ h_units[r][u].body = body})

\* The (alert, receiver) pairs of r whose alert formats to body and whose
\* receiver is to.
Pairs(r, to, body) ==
    Cardinality({p \in (1..Len(Alerts(r))) \X (1..Len(Rcvs(r))) :
        LET f == FormatMessage(Alerts(r)[p[1]], PayloadStatus(r), cfg)
        IN  f.err = Nil /\ f.body = body /\ Rcvs(r)[p[2]] = to})

\* C4: without dry-run, when a dispatch has answered, every (alert, receiver)
\* pair whose alert formats has had exactly one Client.SendMessage call with
\* its receiver, the configured sender and its formatted body, whichever other
\* units failed; no unit ever calls twice, and no call is made with other
\* arguments.
C4_OneCallPerPair ==
    \A r \in Reqs :
        /\ \A u \in UnitsOf(r) : h_units[r][u].calls <= 1
        /\ (Responded(r) /\ Validated(r) /\ GateOpen(r) /\ ~cfg.DryRun) =>
              /\ \A i \in 1..Len(Alerts(r)) : \A j \in 1..Len(Rcvs(r)) :
                    LET f == FormatMessage(Alerts(r)[i], PayloadStatus(r), cfg)
                    IN  f.err = Nil =>
                          Invocations(r, Rcvs(r)[j], cfg.Sender, f.body)
                            = Pairs(r, Rcvs(r)[j], f.body)
              /\ \A u \in UnitsOf(r) :
                    h_units[r][u].calls > 0 =>
                        /\ h_units[r][u].from = cfg.Sender
                        /\ Pairs(r, h_units[r][u].to, h_units[r][u].body) > 0

\* Reached: a 2 x 2 dispatch of two different alerts, answered, in which one
\* unit failed in the transport and another was sent.
C4_Witness ==
    \E r \in Reqs :
        /\ Responded(r) /\ ~cfg.DryRun
        /\ Alerts(r) = <<AlertUp, AlertDown>> /\ Len(Rcvs(r)) = 2
        /\ h_resp[r].sent > 0
        /\ \E k \in 1..Len(h_resp[r].errors) : h_resp[r].errors[k].cause = ErrAPI(503)

\* C5: once the response of a request is written every one of its units has
\* ended, the mutex is free, and the response carries the final values of
\* sent, failed and the error list: nothing changes them afterwards.
C5_ResponseAfterJoin ==
    \A r \in Reqs :
        Responded(r) =>
            /\ \A u \in UnitsOf(r) : h_units[r][u].pc = "done"
            /\ h_mu[r] = 0
            /\ h_resp[r].sent = h_sent[r]
            /\ h_resp[r].failed = h_failed[r]
            /\ h_resp[r].errors = h_errs[r]
            /\ h_sent[r] + h_failed[r] = Len(h_units[r])

\* Reached: a response after a unit that used up its three attempts.
C5_Witness ==
    \E r \in Reqs :
        /\ Responded(r) /\ Len(h_units[r]) >= 2
        /\ \E k \in 1..Len(h_errs[r]) : h_errs[r][k].cause = ErrAPI(503)

\* The entries of the error list of r for receiver `to` with this cause.
ErrorEntries(r, to, cause) ==
    Cardinality({k \in 1..Len(h_errs[r]) : h_errs[r][k] = [to |-> to, cause |-> cause]})

\* C6: for an alert whose summary and description are both blank or absent
\* FormatMessage fails with the missing-annotations error and its units never
\* call the transport; when the dispatch has answered, each such unit is one
\* failure with that error against its receiver, and the units of the other
\* alerts of the payload have all called the transport (without dry-run).
C6_BlankAlert ==
    \A r \in Reqs :
        /\ \A u \in UnitsOf(r) :
              BlankAlert(UnitAlert(r, u)) =>
                  /\ FormatMessage(UnitAlert(r, u), PayloadStatus(r), cfg).err = ErrMissing
                  /\ h_units[r][u].calls = 0
        /\ (Responded(r) /\ Validated(r) /\ GateOpen(r)) =>
              /\ \A j \in 1..Len(Rcvs(r)) :
                    ErrorEntries(r, Rcvs(r)[j], ErrMissing)
                      = Cardinality({u \in UnitsOf(r) :
                            BlankAlert(UnitAlert(r, u)) /\ h_units[r][u].rcv = Rcvs(r)[j]})
              /\ h_resp[r].failed >=
                    Cardinality({u \in UnitsOf(r) : BlankAlert(UnitAlert(r, u))})
              /\ \A u \in UnitsOf(r) :
                    (~BlankAlert(UnitAlert(r, u)) /\ ~cfg.DryRun) => h_units[r][u].calls = 1

\* Reached: a blank alert and a good one to two receivers, answered with two
\* failures and two sent.
C6_Witness ==
    \E r \in Reqs :
        /\ Responded(r)
        /\ Alerts(r) = <<AlertBlank, AlertUp>> /\ Len(Rcvs(r)) = 2
        /\ h_resp[r].failed = 2 /\ h_resp[r].sent = 2
        /\ ~cfg.DryRun

\* The units of r whose alert has a non-blank summary or description.
Sendable(r) == {u \in UnitsOf(r) : ~BlankAlert(UnitAlert(r, u))}

\* C15: in dry-run mode no unit ever calls Client.SendMessage, and when the
\* dispatch has answered, `sent` is the number of units whose alert formats
\* (the others are the failures).
C15_DryRunSendsNothing ==
    cfg.DryRun =>
        \A r \in Reqs :
            /\ \A u \in UnitsOf(r) :
                  /\ h_units[r][u].calls = 0
                  /\ h_units[r][u].pc # "send"
            /\ (Responded(r) /\ Validated(r) /\ GateOpen(r)) =>
                  /\ h_resp[r].sent = Cardinality(Sendable(r))
                  /\ h_resp[r].failed = Cardinality(UnitsOf(r)) - Cardinality(Sendable(r))

\* Reached: a dry run of a blank alert and a good one to two receivers,
\* answered with two sent and two failures.
C15_Witness ==
    /\ cfg.DryRun
    /\ \E r \in Reqs :
          /\ Responded(r)
          /\ Alerts(r) = <<AlertUp, AlertBlank>> /\ Len(Rcvs(r)) = 2
          /\ h_resp[r].sent = 2 /\ h_resp[r].failed = 2
----------------------------------------------------------------------------
(* Properties of TwilioHTTPClient.SendMessage (under SpecClient) *)

Out(k) == iterLog[k].out
Iterations == Len(iterLog)
HTTPAttempts == Cardinality({k \in 1..Iterations : Out(k).kind # "norequest"})
Returned == c_pc = "returned"

Is2xx(o) == o.kind = "resp" /\ o.status >= 200 /\ o.status <= 299
\* The retryable outcomes as the claims list them: a 429 or 5xx status, a
\* request timeout, a deadline-exceeded error.
ListedRetryable(o) ==
    \/ o.kind = "resp" /\ (o.status = 429 \/ (o.status >= 500 /\ o.status <= 599))
    \/ o.kind = "neterr" /\ (o.timeout \/ o.deadline)
Other4xx(o) == o.kind = "resp" /\ o.status >= 400 /\ o.status <= 499 /\ o.status # 429
ReadFailed(o) == o.kind = "resp" /\ o.readErr

RECURSIVE SumDelays(_)
SumDelays(k) == IF k = 0 THEN 0 ELSE iterLog[k].delay + SumDelays(k - 1)
TotalDelay == SumDelays(Iterations)

\* C7 as stated: at most 3 attempts; an attempt is followed by another only
\* if it ended in a listed retryable outcome; any other 4xx status, or a
\* failure to construct the request, ends the call with an error at once.
C7_AsStated ==
    /\ HTTPAttempts <= 3
    /\ \A k \in 1..(Iterations - 1) : ListedRetryable(Out(k))
    /\ \A k \in 1..Iterations :
          (Other4xx(Out(k)) \/ Out(k).kind = "norequest") =>
              (k = Iterations /\ Returned /\ c_ret # Nil)

\* C7, amended: at most 3 attempts; an attempt is followed by another only if
\* it ended in a 429 or 5xx status, a timeout or deadline-exceeded error, or
\* a failure to read the response body (whatever the status); any other 4xx
\* status whose body was read, or a failure to construct the request, ends
\* the call with an error at once.
C7_RetryOnlyAfterRetryable ==
    /\ HTTPAttempts <= 3
    /\ Iterations <= 3
    /\ \A k \in 1..(Iterations - 1) : ListedRetryable(Out(k)) \/ ReadFailed(Out(k))
    /\ \A k \in 1..Iterations :
          ((Other4xx(Out(k)) /\ ~ReadFailed(Out(k))) \/ Out(k).kind = "norequest") =>
              (k = Iterations /\ Returned /\ c_ret # Nil)

\* Reached: a 404 whose body could not be read was retried, and the 400 that
\* followed ended the call.
C7_Witness ==
    /\ Returned /\ Iterations = 2 /\ c_ret = ErrAPI(400)
    /\ Out(1).status = 404 /\ Out(1).readErr
    /\ Out(2).status = 400 /\ ~Out(2).readErr

\* C8: the delay slept before attempt 1, 2, 3 is 0 s, 1 s, 2 s, and no
\* other delay is taken: a call that returns after 1, 2 or 3 attempts has
\* slept 0 s, 1 s or 3 s in all.
C8_BackoffSchedule ==
    /\ \A k \in 1..Iterations : iterLog[k].delay = k - 1
    /\ Returned => ( /\ Iterations \in 1..3
                     /\ TotalDelay = (IF Iterations = 1 THEN 0
                                      ELSE IF Iterations = 2 THEN 1 ELSE 3) )

\* Reached: a call that returned after its third attempt.
C8_Witness ==
    /\ Returned /\ Iterations = 3
    /\ iterLog[2].delay = 1 /\ iterLog[3].delay = 2

\* C9 as stated: when attempts 1..k-1 ended in listed retryable failures and
\* attempt k got a 2xx status, SendMessage has returned nil after exactly k
\* attempts.
C9_AsStated ==
    \A k \in 1..Iterations :
        ((\A h \in 1..(k - 1) : ListedRetryable(Out(h))) /\ Is2xx(Out(k))) =>
            (Returned /\ c_ret = Nil /\ Iterations = k)

\* C9 where the body of the 2xx response is read: when attempts 1..k-1 ended in listed retryable failures and
\* attempt k got a 2xx status whose body was read without error, SendMessage
\* has returned nil after exactly k attempts; 503, 503, 201 is a success
\* after exactly 3 attempts and a total delay of at least 1 s.
C9_SuccessAfterRetries ==
    /\ \A k \in 1..Iterations :
          ( /\ \A h \in 1..(k - 1) : ListedRetryable(Out(h))
            /\ Is2xx(Out(k)) /\ ~ReadFailed(Out(k)) ) =>
              (Returned /\ c_ret = Nil /\ Iterations = k)
    /\ ( /\ Iterations = 3
         /\ Out(1).status = 503 /\ Out(2).status = 503 /\ Out(3).status = 201
         /\ \A k \in 1..3 : ~Out(k).readErr ) =>
            (Returned /\ c_ret = Nil /\ TotalDelay >= 1)

\* Reached: 503, 503, 201, each read in full, returned nil.
C9_Witness ==
    /\ Returned /\ c_ret = Nil /\ Iterations = 3
    /\ Out(1).status = 503 /\ Out(2).status = 503 /\ Out(3).status = 201
    /\ \A k \in 1..3 : ~Out(k).readErr

----------------------------------------------------------------------------
(* Properties of RateLimiter (under SpecLimiter) *)

\* C10: a limiter created with capacity max > 0 always has
\* 0 <= tokens <= max, whatever the interleaving of Allow() calls and the
\* passage of time.
C10_TokensInRange ==
    /\ max > 0
    /\ tokens >= 0
    /\ tokens <= max

\* Reached: the window was refilled at least once, the tokens are used up
\* and a caller has been refused.
C10_Witness ==
    /\ rl_hist.resets >= 1
    /\ tokens = 0
    /\ \E c \in Callers : rl_ret[c] = "false"

----------------------------------------------------------------------------
(* Properties of the send route behind RateLimiter.Wrap (under SpecServer) *)

Rejected(r) == rl_pc[r] = "idle" /\ rl_ret[r] = "false"
Let(r) == rl_pc[r] = "idle" /\ rl_ret[r] = "true"

RECURSIVE SumOver(_, _)
SumOver(f, n) == IF n = 0 THEN 0 ELSE f[n] + SumOver(f, n - 1)

\* C13: a request for which Allow() returned false is answered 429 and never
\* reaches the send handler: nothing is read from it, no goroutine is
\* started for it, no alert of it is formatted or sent, and the counters
\* hold only what the requests let through account for.
C13_RejectedNeverHandled ==
    /\ \A r \in Reqs :
          Rejected(r) =>
             /\ h_pc[r] \in {"none", "responded"}
             /\ h_pc[r] = "responded" => h_resp[r] = HTTPError(429)
             /\ h_in[r] = NoRequestYet
             /\ h_units[r] = <<>>
             /\ h_sent[r] = 0 /\ h_failed[r] = 0 /\ h_errs[r] = <<>>
    /\ metrics.alertsProcessedTotal <= Cardinality({r \in Reqs : Let(r) /\ Arrived(r)})
    /\ metrics.smsSentTotal + metrics.smsFailedTotal
          <= SumOver([r \in Reqs |-> IF Let(r) THEN Len(h_units[r]) ELSE 0], MaxRequests)

\* Reached: one request was let through and answered with an SMS sent, the
\* next was refused and answered 429.
C13_Witness ==
    \E r, q \in Reqs :
        /\ Rejected(r) /\ h_pc[r] = "responded" /\ h_resp[r].code = 429
        /\ Let(q) /\ h_pc[q] = "responded" /\ h_resp[q].sent > 0
        /\ metrics.smsSentTotal > 0

\* No request is between its gate and its response.
Quiescent == \A r \in Reqs : h_pc[r] # "wait"

JSONResponse(r) == Responded(r) /\ h_resp[r].kind = "json"

C14_Totals ==
    ~cfg.DryRun =>
       /\ metrics.alertsProcessedTotal =
             Cardinality({r \in Reqs : Validated(r) /\ GateOpen(r)})
       /\ metrics.smsSentTotal = SumOver(h_sent, MaxRequests)
       /\ metrics.smsFailedTotal = SumOver(h_failed, MaxRequests)
       /\ Quiescent =>
            /\ metrics.smsSentTotal =
                  SumOver([r \in Reqs |-> IF JSONResponse(r) THEN h_resp[r].sent ELSE 0], MaxRequests)
            /\ metrics.smsFailedTotal =
                  SumOver([r \in Reqs |-> IF JSONResponse(r) THEN h_resp[r].failed ELSE 0], MaxRequests)

C14_NeverDecreases ==
    /\ metrics'.alertsProcessedTotal >= metrics.alertsProcessedTotal
    /\ metrics'.smsSentTotal >= metrics.smsSentTotal
    /\ metrics'.smsFailedTotal >= metrics.smsFailedTotal

\* C14: without dry-run, alerts_processed_total is the number of requests
\* that passed the status gate, sms_sent_total and sms_failed_total are the
\* sums of the requests' sent and failed tallies at every moment (no
\* concurrent increment is lost) and, once no request is in flight, the sums
\* of `sent` and `failed` over the responses; no counter ever decreases.
C14_CountersMatchResponses == []C14_Totals /\ [][C14_NeverDecreases]_vars

\* Reached: two requests ran concurrently without dry-run, each with one SMS
\* sent and one failed, and both were answered.
C14_Witness ==
    /\ ~cfg.DryRun
    /\ \A r \in Reqs : JSONResponse(r) /\ h_resp[r].sent = 1 /\ h_resp[r].failed = 1
    /\ metrics.smsSentTotal = MaxRequests
    /\ metrics.smsFailedTotal = MaxRequests
    /\ metrics.alertsProcessedTotal = MaxRequests

----------------------------------------------------------------------------
(* Properties of TruncateMessage (under SpecTruncate) *)

Called == t_pc \in {"once", "twice"}
FirstBytes(s, k) == [i \in 1..k |-> s[i]]
Ellipsis == <<".", ".", ".">>

\* What the claim says of a call that returned `out` for (s, n).
TruncatedAsClaimed(s, n, out) ==
    /\ Len(out) <= n
    /\ Len(s) > n =>
          /\ Len(out) = n
          /\ out = IF n > 3 THEN FirstBytes(s, n - 3) \o Ellipsis ELSE FirstBytes(s, n)

\* C16 as stated: for every string s and integer n the call returns a string
\* of length <= n, of length exactly n when len(s) > n.
C16_AsStated ==
    Called => (~t_out.panic /\ TruncatedAsClaimed(t_msg, t_maxLen, t_out.out))

\* C16, amended: for every string s and every integer n >= 0,
\* TruncateMessage(s, n) returns a string of byte length <= n, and of byte
\* length exactly n when len(s) > n (the first n-3 bytes plus "..." when
\* n > 3, the first n bytes otherwise).
C16_LengthBound ==
    (Called /\ t_maxLen >= 0) =>
        (~t_out.panic /\ TruncatedAsClaimed(t_msg, t_maxLen, t_out.out))

\* Reached: a message of 6 bytes cut to 4 (one byte and the ellipsis), and
\* one cut to 2 bytes without ellipsis.
C16_Witness ==
    /\ Called /\ Len(t_msg) = 6 /\ ~t_out.panic
    /\ \/ t_maxLen = 4 /\ t_out.out = <<t_msg[1]>> \o Ellipsis
       \/ t_maxLen = 2 /\ t_out.out = <<t_msg[1], t_msg[2]>>

\* C17: for every string s and every n > 0, truncating the result again with
\* the same n changes nothing.
C17_Idempotent ==
    (t_pc = "twice" /\ t_maxLen > 0) =>
        (~t_again.panic /\ t_again.out = t_out.out)

\* Reached: a second call on a result that the first call had cut.
C17_Witness ==
    /\ t_pc = "twice" /\ t_maxLen = 5 /\ Len(t_msg) = 6
    /\ t_out.out # t_msg
    /\ t_again.out = t_out.out

----------------------------------------------------------------------------
(* Properties of FormatMessage (under SpecFormat) *)

Formatted == f_pc \in {"formatted", "handed"}

\* The effective maximum as the claim words it.
Limit == IF f_cfg.MaxMessageLength > 0 THEN f_cfg.MaxMessageLength ELSE 150

\* C18: every body handed to the transport, or logged in dry-run, has byte
\* length <= the effective maximum (MaxMessageLength when > 0, else 150),
\* whatever the lengths of the prefix, the alert name and the text.
C18_BodyWithinLimit ==
    (f_pc = "handed" /\ f_handed.kind # "none") =>
        /\ f_handed.body = f_out.body
        /\ Len(f_handed.body) <= Limit

\* Reached: a prefix longer than the maximum of 9 sent as 9 bytes, and a text
\* of 160 bytes logged in a dry run as 150.
C18_Witness ==
    /\ f_pc = "handed"
    /\ \/ /\ f_handed.kind = "send" /\ f_cfg.MaxMessageLength = 9
          /\ Len(f_cfg.MessagePrefix) > 9 /\ Len(f_handed.body) = 9
       \/ /\ f_handed.kind = "log" /\ f_cfg.MaxMessageLength = 0
          /\ Len(f_raw) > 150 /\ Len(f_handed.body) = 150

\* The parts of the body in the claim's order, around the text taken from
\* the annotation value src.
PrefixPart == IF f_cfg.MessagePrefix # <<>> THEN f_cfg.MessagePrefix \o <<" ">> ELSE <<>>
ResolvedPart ==
    IF f_status = "resolved" THEN <<"R","E","S","O","L","V","E","D",":"," ">> ELSE <<>>
NamePart ==
    IF IsBlank(GetLabel(f_alert, AlertName)) THEN <<>>
    ELSE <<"[">> \o GetLabel(f_alert, AlertName) \o <<"]", " ">>
TextPart(src) ==
    LET text == FindAndReplaceLabels(src, f_alert)
        ts == ParseRFC3339(f_alert.StartsAt)
    IN  IF ts.ok
        THEN <<"\"">> \o text \o <<"\"">>
             \o <<" ","a","l","e","r","t"," ","s","t","a","r","t","s"," ","a","t"," ">>
             \o FormatRFC1123(ts)
        ELSE text
ExpectedBody(src) == PrefixPart \o ResolvedPart \o NamePart \o TextPart(src)

\* C19: for every alert that formats, the body before truncation is
\* MessagePrefix + " " (non-empty prefix), "RESOLVED: " (status resolved),
\* "[" + alertname + "] " (non-blank alertname) and the text (quoted and
\* followed by " alert starts at <ts>" when startsAt parses), in this order;
\* it is the body returned when it fits the maximum.
C19_BodyOrder ==
    (Formatted /\ f_out.err = Nil) =>
        /\ f_raw = ExpectedBody(SelectText(f_alert))
        /\ Len(f_raw) <= Limit => f_out.body = f_raw

\* Reached: prefix, resolved marker, alert name, quoted text and timestamp.
C19_Witness ==
    /\ Formatted /\ f_out.err = Nil
    /\ f_raw = <<"P"," ","R","E","S","O","L","V","E","D",":"," ","[","U","p","]"," ",
               "\"","h","i","\""," ","a","l","e","r","t"," ","s","t","a","r","t","s",
               " ","a","t"," ","M","o","n",","," ","1","5"," ","J","a","n"," ","2",
               "0","2","4"," ","1","0",":","3","0",":","0","0"," ","U","T","C">>

HasAnnotation(alert, name) == \E p \in alert.Annotations : p[1] = name

\* C20 as stated: for every alert that has a summary annotation the text is
\* the summary, whatever the description.
C20_AsStated ==
    (Formatted /\ HasAnnotation(f_alert, Summary)) =>
        /\ f_out.err = Nil
        /\ f_raw = ExpectedBody(GetAnnotation(f_alert, Summary))

\* C20, amended: for every alert whose summary annotation is non-blank
\* (not empty after trimming whitespace), FormatMessage takes the text from
\* the summary and ignores the description, even when the description is
\* present and non-blank.
C20_SummaryPreferred ==
    (Formatted /\ ~IsBlank(GetAnnotation(f_alert, Summary))) =>
        /\ f_out.err = Nil
        /\ f_raw = ExpectedBody(GetAnnotation(f_alert, Summary))

\* Reached: an alert with summary "hi" and description "dn" formatted as "hi".
C20_Witness ==
    /\ Formatted
    /\ <<Summary, <<"h","i">> >> \in f_alert.Annotations
    /\ <<Description, <<"d","n">> >> \in f_alert.Annotations
    /\ f_raw = <<"h","i">>
    /\ f_out.body = <<"h","i">>

MinOf(a, b) == IF a < b THEN a ELSE b

\* C11: in every window, fresh or refilled, the calls that have returned were
\* granted up to max and refused after that (the first max return true, the
\* next false), and a call that took the mutex when at least one window
\* length had elapsed since the last reset returned true.
C11_WindowAdmitsMax ==
    /\ rl_hist.grants = MinOf(rl_hist.calls, max)
    /\ \A c \in Callers :
          (rl_pc[c] = "idle" /\ rl_ret[c] # "none" /\ rl_hist.due[c]) => rl_ret[c] = "true"

\* Reached: a second window in which max calls were granted and one more
\* refused, opened by a call made after a window length had elapsed.
C11_Witness ==
    /\ max = MaxCap
    /\ rl_hist.resets = 1
    /\ rl_hist.calls = max + 1
    /\ rl_hist.grants = max
    /\ \E c \in Callers : rl_pc[c] = "idle" /\ rl_ret[c] = "false"
    /\ \E c \in Callers : rl_pc[c] = "idle" /\ rl_hist.due[c] /\ rl_ret[c] = "true"

\* C12: whatever the interleaving of the callers, at most max calls return
\* true between two consecutive resets, and no two callers are inside the
\* check-and-decrement at once.
C12_AtMostMaxGrants ==
    /\ rl_hist.grants <= max
    /\ Cardinality({c \in Callers : rl_pc[c] # "idle"}) <= 1
    /\ \A c \in Callers : rl_pc[c] # "idle" => rl_mu = c

\* Reached: one caller is about to take the last token while another waits
\* for the mutex, having been granted a token before.
C12_Witness ==
    /\ tokens = 1
    /\ \E c \in Callers : rl_pc[c] = "dec"
    /\ \E c \in Callers : rl_pc[c] = "idle" /\ rl_ret[c] = "true"
    /\ rl_hist.grants = max - 1

----------------------------------------------------------------------------
(* Properties of FormatMessage without a usable startsAt (under SpecFormat) *)

NoTimestamp == ~ParseRFC3339(f_alert.StartsAt).ok

\* The (possibly prefixed) interpolated text: no quotes, no timestamp.
PlainBody ==
    PrefixPart \o ResolvedPart \o NamePart
      \o FindAndReplaceLabels(SelectText(f_alert), f_alert)

\* C21 as stated: whenever startsAt is absent or does not parse as RFC3339,
\* formatting does not fail, the unit is sent, and the body is exactly the
\* (possibly prefixed) interpolated text.
C21_AsStated ==
    (f_pc = "handed" /\ NoTimestamp) =>
        /\ f_out.err = Nil
        /\ f_handed.kind = "send"
        /\ f_handed.body = PlainBody

\* C21, amended: when startsAt is absent or does not parse as RFC3339 and
\* the alert has a non-blank summary or description, formatting does not
\* fail: the unit is sent (logged in dry-run), and the body before truncation
\* is exactly the (possibly prefixed) interpolated text, with no surrounding
\* quotes and no " alert starts at " suffix; it is the body handed on when it
\* fits the maximum length.
C21_NoTimestamp ==
    (f_pc = "handed" /\ NoTimestamp /\ ~IsBlank(SelectText(f_alert))) =>
        /\ f_out.err = Nil
        /\ f_handed.kind = IF f_cfg.DryRun THEN "log" ELSE "send"
        /\ f_raw = PlainBody
        /\ Len(f_raw) <= Limit => f_handed.body = PlainBody

\* Reached: a startsAt of 30 February, sent as "P [Up] hi".
C21_Witness ==
    /\ f_pc = "handed"
    /\ f_alert.StartsAt =
         <<"2","0","2","4","-","0","2","-","3","0","T","1","0",":","3","0",":","0","0","Z">>
    /\ f_handed.kind = "send"
    /\ f_handed.body = <<"P"," ","[","U","p","]"," ","h","i">>

----------------------------------------------------------------------------
(* Properties of FindAndReplaceLabels (under SpecLabels) *)

Interpolated == l_pc = "done"

\* The text in which each match of the pattern, found from left to right
\* from 0-based position i, is replaced by the value of the label it names
\* and every other character is kept.
RECURSIVE EachReplaced(_, _, _)
EachReplaced(s, i, alert) ==
    IF i >= Len(s) THEN <<>>
    ELSE IF MatchAt(s, i)
         THEN LET n == Len(LabelsPrefix) + IdentRun(s, i + Len(LabelsPrefix))
                  name == SubSeq(s, i + Len(LabelsPrefix) + 1, i + n)
              IN  GetLabel(alert, name) \o EachReplaced(s, i + n, alert)
         ELSE <<s[i + 1]>> \o EachReplaced(s, i + 1, alert)

\* C22: for every text and label set, FindAndReplaceLabels(text, alert) is
\* the text in which each $labels.<identifier> match is replaced by the value
\* of the label named <identifier> (empty if absent) and every other
\* character is unchanged: each placeholder receives its own label's value
\* whatever other placeholders occur in the text.
C22_EachPlaceholderOwnValue ==
    Interpolated => l_out = EachReplaced(l_body, 0, l_alert)

\* A mark that stands for the value of a label: one element that no pattern
\* matches.
Mark(name) ==
    CASE name = <<"a">> -> "#a"
      [] name = <<"a","b">> -> "#ab"
      [] name = <<"b">> -> "#b"
Marks == {"#a", "#ab", "#b"}
MarkedName(c) == CHOOSE name \in { <<"a">>, <<"a","b">>, <<"b">> } : Mark(name) = c

\* The alert with every label value replaced by its mark.
Marked(alert) ==
    [alert EXCEPT !.Labels = { <<p[1], <<Mark(p[1])>> >> : p \in alert.Labels }]

\* The text with every mark replaced by the value it stands for.
RECURSIVE Unmarked(_, _)
Unmarked(s, alert) ==
    IF s = <<>> THEN <<>>
    ELSE (IF Head(s) \in Marks THEN GetLabel(alert, MarkedName(Head(s))) ELSE <<Head(s)>>)
         \o Unmarked(Tail(s), alert)

\* C23: label interpolation is not recursive: for every text and label set
\* the result is the one obtained when the inserted values cannot be read at
\* all (each is put in as an opaque mark and filled in at the end), so an
\* inserted value is never itself scanned or rewritten, even when it has the
\* form of a placeholder that also occurs in the text.
C23_ValuesNotRescanned ==
    Interpolated => l_out = Unmarked(FindAndReplaceLabels(l_body, Marked(l_alert)), l_alert)

\* Reached: "$labels.a $labels.ab" with a = "X" and ab = "Y" comes out as
\* "X Xb".
C22_Witness ==
    /\ Interpolated
    /\ l_body = <<"$","l","a","b","e","l","s",".","a"," ",
                  "$","l","a","b","e","l","s",".","a","b">>
    /\ GetLabel(l_alert, <<"a">>) = <<"X">>
    /\ GetLabel(l_alert, <<"a","b">>) = <<"Y">>
    /\ l_out = <<"X"," ","X","b">>

\* Reached: "$labels.a $labels.b" with a = "$labels.b" and b = "Z" comes out
\* as "Z Z".
C23_Witness ==
    /\ Interpolated
    /\ l_body = <<"$","l","a","b","e","l","s",".","a"," ",
                  "$","l","a","b","e","l","s",".","b">>
    /\ GetLabel(l_alert, <<"a">>) = <<"$","l","a","b","e","l","s",".","b">>
    /\ GetLabel(l_alert, <<"b">>) = <<"Z">>
    /\ l_out = <<"Z"," ","Z">>

----------------------------------------------------------------------------
(* Properties of the validations of SendRequest (under SpecServer) *)

\* The send handler read request r (the limiter let it through).
Read(r) == Arrived(r) /\ h_in[r] # NoRequestYet

NonJSON(r) == ~IsJSONContentType(h_in[r].contentType)
MalformedBody(r) == ~NonJSON(r) /\ Unmarshal(h_in[r]) = Malformed
NoReceiver(r) == ~NonJSON(r) /\ Unmarshal(h_in[r]) # Malformed /\ Len(Rcvs(r)) = 0
FailsValidation(r) == NonJSON(r) \/ MalformedBody(r) \/ NoReceiver(r)

C24_Answers ==
    \A r \in Reqs :
        (Read(r) /\ FailsValidation(r)) =>
            /\ Responded(r)
            /\ h_resp[r].kind = "text"
            /\ h_resp[r].code = IF NonJSON(r) THEN 406 ELSE 400
            /\ h_units[r] = <<>>
            /\ h_sent[r] = 0 /\ h_failed[r] = 0 /\ h_errs[r] = <<>>

C24_CountersKept ==
    \A r \in Reqs :
        (~Arrived(r) /\ Read(r)' /\ FailsValidation(r)') => metrics' = metrics

\* C24: a POST /send that fails validation is answered 406 for a non-JSON
\* content type and 400 for a malformed JSON body or an empty receiver list;
\* in each case no goroutine is started (no alert is formatted, no transport
\* call is made) and the step that handles it changes no metrics counter.
C24_ValidationErrors == []C24_Answers /\ [][C24_CountersKept]_vars

\* Reached: after a request that sent one SMS, a second with an empty
\* receiver list was answered 400 and the counters stand at one alert batch
\* processed and one SMS sent.
C24_Witness ==
    \E r, q \in Reqs :
        /\ Responded(q) /\ h_resp[q].kind = "json" /\ h_resp[q].sent = 1
        /\ Read(r) /\ NoReceiver(r) /\ h_resp[r] = HTTPError(400)
        /\ metrics.alertsProcessedTotal = 1 /\ metrics.smsSentTotal = 1

----------------------------------------------------------------------------
(* Properties of the body size cap (under SpecServer) *)

AtOrBeyondCap(r) == h_in[r].wire.size >= maxBodySize

\* C25: a POST /send (with a JSON content type) whose body is at or beyond
\* the 5 MiB cap is never dispatched: the cut body fails to parse, the
\* response is 400, no goroutine is started and no transport call is made.
C25_OversizedNeverDispatched ==
    \A r \in Reqs :
        (Read(r) /\ ~NonJSON(r) /\ AtOrBeyondCap(r)) =>
            /\ Responded(r)
            /\ h_resp[r] = HTTPError(400)
            /\ h_units[r] = <<>>

\* Reached: a body of maxBodySize + 1000 bytes, a document of 200 bytes and
\* white space after it, was answered 200 with one SMS sent.
C25_Witness ==
    \E r \in Reqs :
        /\ Read(r) /\ h_in[r].wire = [docLen |-> 200, size |-> maxBodySize + 1000]
        /\ Responded(r) /\ h_resp[r].code = 200 /\ h_resp[r].sent = 1
        /\ \E u \in UnitsOf(r) : h_units[r][u].calls = 1

----------------------------------------------------------------------------
(* Properties of requests served side by side (under SpecServer) *)

Dispatched(r) == Read(r) /\ Validated(r) /\ GateOpen(r)
DoneUnits(r) == {u \in UnitsOf(r) : h_units[r][u].pc = "done"}

\* The tallies of a request count its own finished units, and its response
\* is made of them.
C26_OwnUnitsOnly ==
    \A r \in Reqs :
        /\ h_sent[r] + h_failed[r] = Cardinality(DoneUnits(r))
        /\ Len(h_errs[r]) = h_failed[r]
        /\ (Responded(r) /\ Dispatched(r)) =>
              /\ h_resp[r].sent + h_resp[r].failed = Len(h_units[r])
              /\ h_resp[r].sent = h_sent[r]
              /\ h_resp[r].failed = h_failed[r]
              /\ h_resp[r].errors = h_errs[r]
              /\ h_resp[r].success = (h_failed[r] = 0)
              /\ h_resp[r].code = IF h_failed[r] = 0 THEN 200 ELSE 500

\* A unit that ends, failed or not, is tallied in its own request and
\* leaves every other request as it was.
C26_OthersUntouched ==
    \A r \in Reqs : \A u \in 1..MaxUnits :
        (u \in UnitsOf(r) /\ h_units[r][u].pc = "lock" /\ h_units'[r][u].pc = "done") =>
            /\ \A q \in Reqs \ {r} :
                  /\ h_sent'[q] = h_sent[q] /\ h_failed'[q] = h_failed[q]
                  /\ h_errs'[q] = h_errs[q]
                  /\ h_resp'[q] = h_resp[q] /\ h_pc'[q] = h_pc[q]
                  /\ h_units'[q] = h_units[q]
            /\ IF h_units[r][u].err # Nil
               THEN /\ h_failed'[r] = h_failed[r] + 1 /\ h_sent'[r] = h_sent[r]
                    /\ h_errs'[r] = Append(h_errs[r], ErrorEntry(h_units[r][u].rcv, h_units[r][u].err))
               ELSE /\ h_sent'[r] = h_sent[r] + 1 /\ h_failed'[r] = h_failed[r]
                    /\ h_errs'[r] = h_errs[r]

\* C26: under any interleaving of concurrent or successive POST /send
\* requests on one handler, each response's sent, failed and errors reflect
\* only that request's own dispatch units; a failed unit in one request never
\* changes the counts, errors or status of another request.
C26_RequestsIsolated == []C26_OwnUnitsOnly /\ [][C26_OthersUntouched]_vars

\* Reached: two requests served by the same handler, one answered 500 with a
\* failed unit, the other 200 with its SMS sent and no error.
C26_Witness ==
    \E r, q \in Reqs :
        /\ Responded(r) /\ Dispatched(r) /\ h_resp[r].code = 500 /\ h_resp[r].failed >= 1
        /\ Responded(q) /\ Dispatched(q) /\ h_resp[q].code = 200
        /\ h_resp[q].sent = 1 /\ h_resp[q].failed = 0 /\ h_resp[q].errors = <<>>

----------------------------------------------------------------------------
(* Properties of the errors list (under Spec) *)

FailedUnits(r) == {u \in UnitsOf(r) : h_units[r][u].pc = "done" /\ h_units[r][u].err # Nil}

\* How often the entry "Failed to send to <to>: <cause>" occurs in errs.
Occurrences(errs, to, cause) ==
    Cardinality({k \in 1..Len(errs) : errs[k] = [to |-> to, cause |-> cause]})

\* C27: in every response of a dispatched request the errors list has
\* exactly `failed` entries, each "Failed to send to <receiver>: <cause>" for
\* the receiver and the error of one failed unit, and each failed unit has
\* its entry: as a multiset the list is fixed by the units' outcomes, whatever
\* the interleaving put first.
C27_ErrorsList ==
    \A r \in Reqs :
        (Responded(r) /\ Validated(r) /\ GateOpen(r)) =>
            /\ Len(h_resp[r].errors) = h_resp[r].failed
            /\ h_resp[r].failed = Cardinality(FailedUnits(r))
            /\ \A k \in 1..Len(h_resp[r].errors) :
                  \E u \in FailedUnits(r) :
                      h_resp[r].errors[k] = [to |-> h_units[r][u].rcv, cause |-> h_units[r][u].err]
            /\ \A u \in FailedUnits(r) :
                  Occurrences(h_resp[r].errors, h_units[r][u].rcv, h_units[r][u].err)
                    = Cardinality({v \in FailedUnits(r) :
                                     /\ h_units[r][v].rcv = h_units[r][u].rcv
                                     /\ h_units[r][v].err = h_units[r][u].err})

\* Reached: three failed units, two of them to different receivers and for
\* different reasons, where the entry of the one started later comes first
\* in the list.
C27_Witness ==
    \E r \in Reqs :
        /\ Responded(r) /\ h_resp[r].failed = 3 /\ Len(h_resp[r].errors) = 3
        /\ \E u, v \in FailedUnits(r) : \E i, j \in 1..3 :
              /\ u < v /\ i < j
              /\ h_units[r][u].rcv # h_units[r][v].rcv
              /\ h_units[r][u].err # h_units[r][v].err
              /\ h_resp[r].errors[i] = [to |-> h_units[r][v].rcv, cause |-> h_units[r][v].err]
              /\ h_resp[r].errors[j] = [to |-> h_units[r][u].rcv, cause |-> h_units[r][u].err]

----------------------------------------------------------------------------
(* Properties of the receiver query parameter (under Spec) *)

Param(r) == h_in[r].receiver

\* The receivers each value of the query parameter tried stands for:
\* comma-separated, trimmed, empty parts dropped.
Named(param) ==
    CASE param = RcvB -> <<RcvB>>
      [] param = RcvB \o <<",", " ">> \o RcvC \o <<",">> -> <<RcvB, RcvC>>
      [] param = <<" ", ",">> -> <<>>
      [] param = <<>> -> <<>>

\* The request came through the content type test and the parse.
Parsed(r) == Read(r) /\ ~NonJSON(r) /\ Unmarshal(h_in[r]) # Malformed

\* C28: when the `receiver` query parameter is non-empty, messages are sent
\* to exactly the receivers parsed from it (comma-separated, trimmed, empty
\* parts dropped), one unit per alert and such receiver, and to none of the
\* configured default receivers; when neither the query parameter nor the
\* configuration yields a receiver, the request is rejected with 400.
C28_ReceiverOverride ==
    \A r \in Reqs :
        Parsed(r) =>
            LET named == Named(Param(r))
                m == Len(named)
            IN  /\ (Param(r) # <<>> /\ m > 0 /\ GateOpen(r)) =>
                      /\ Len(h_units[r]) = Len(Alerts(r)) * m
                      /\ \A u \in UnitsOf(r) :
                            /\ h_units[r][u].rcv = named[((u - 1) % m) + 1]
                            /\ h_units[r][u].a = ((u - 1) \div m) + 1
                            /\ \A k \in 1..Len(cfg.Receivers) :
                                  h_units[r][u].rcv # cfg.Receivers[k]
                            /\ h_units[r][u].calls > 0 => h_units[r][u].to = h_units[r][u].rcv
                /\ ((Param(r) = <<>> /\ cfg.Receivers = <<>>) \/ (Param(r) # <<>> /\ m = 0)) =>
                      /\ h_resp[r] = HTTPError(400)
                      /\ h_units[r] = <<>>

\* Reached: with +1 configured, receiver=+2, +3, sent one alert to +2 and to
\* +3 and answered sent = 2.
C28_Witness ==
    \E r \in Reqs :
        /\ Responded(r) /\ cfg.Receivers = <<RcvA>>
        /\ Param(r) = RcvB \o <<",", " ">> \o RcvC \o <<",">>
        /\ Len(h_units[r]) = 2
        /\ h_units[r][1].to = RcvB /\ h_units[r][2].to = RcvC
        /\ h_resp[r].sent = 2

----------------------------------------------------------------------------
(* Properties of the two mutexes (under SpecServer) *)

\* Unit u of request r is inside sendMessage: about to format, or between
\* the attempts of a transport call.
InSendMessage(r, u) == u \in UnitsOf(r) /\ h_units[r][u].pc \in {"start", "send"}

\* Request r is inside the wrapped handler.
InHandler(r) == h_pc[r] = "wait"

\* C29: no dispatch unit holds the aggregation mutex while it is formatting
\* or performing a transport call (the holder has its sendMessage behind it
\* and is at the counter increment and error append), the rate limiter's
\* mutex is not held by a request whose wrapped handler runs; so a unit
\* inside sendMessage holds nothing its siblings wait for.
C29_NoLockAcrossIO ==
    \A r \in Reqs :
        /\ \A u \in 1..MaxUnits :
              /\ InSendMessage(r, u) => h_mu[r] # u
              /\ (u \in UnitsOf(r) /\ h_mu[r] = u) => h_units[r][u].pc = "lock"
        /\ h_mu[r] # 0 => h_mu[r] \in UnitsOf(r)
        /\ InHandler(r) => (rl_mu # r /\ rl_pc[r] = "idle")

\* Reached: a unit is in its third attempt while its sibling, started after
\* it, is through sendMessage and holds the aggregation mutex, and a unit of
\* the other request has sent its message and been counted.
C29_Witness ==
    \E r, q \in Reqs : \E u, v \in UnitsOf(r) :
        /\ u < v /\ q # r
        /\ h_units[r][u].pc = "send" /\ h_units[r][u].att = 2
        /\ h_units[r][v].pc = "lock" /\ h_mu[r] = v
        /\ InHandler(q) /\ h_sent[q] = 1

----------------------------------------------------------------------------
(* Properties of the error SendMessage returns (under SpecClient) *)

\* The error an attempt that ended in o stands for.
ErrorOf(o) ==
    IF o.kind = "norequest" THEN ErrCreate
    ELSE IF o.kind = "neterr" THEN ErrSend
    ELSE IF o.readErr THEN ErrRead
    ELSE ErrAPI(o.status)

LastOut == Out(Iterations)
Failed(o) == ~(Is2xx(o) /\ ~ReadFailed(o))

\* C30: when SendMessage gives up, after its last allowed attempt or at an
\* attempt that is not retried, the error it returns is the error of the
\* last attempt made, not of an earlier one, and never nil: after 503, 429,
\* 500 it reports status 500.
C30_LastErrorReturned ==
    /\ (Returned /\ Failed(LastOut)) =>
          /\ c_ret = ErrorOf(LastOut)
          /\ c_ret # Nil
    /\ ( /\ Returned /\ Iterations = 3
         /\ Out(1).status = 503 /\ Out(2).status = 429 /\ Out(3).status = 500
         /\ \A k \in 1..3 : ~Out(k).readErr ) =>
            c_ret = ErrAPI(500)

\* Reached: 503, 429, 500, each read in full, returned the error of the 500.
C30_Witness ==
    /\ Returned /\ Iterations = 3
    /\ Out(1).status = 503 /\ Out(2).status = 429 /\ Out(3).status = 500
    /\ \A k \in 1..3 : ~Out(k).readErr
    /\ c_ret = ErrAPI(500) /\ c_ret # ErrorOf(Out(1))


\* ---- C31: dispatch terminates ----

\* The unit exhausted its attempts: SendMessage returned the error of the
\* last one.
Exhausted(r, u) == h_units[r][u].pc \in {"ret", "lock", "done"} /\ h_units[r][u].err = ErrAPI(503)

\* No unit is in a fourth attempt, and a responded request reports each of
\* its failed units once.
C31_Bounded ==
    \A r \in Reqs :
        /\ \A u \in UnitsOf(r) : h_units[r][u].att < twilioMaxRetries
        /\ (Dispatched(r) /\ Responded(r)) =>
              /\ h_resp[r].failed = Cardinality(FailedUnits(r))
              /\ \A u \in UnitsOf(r) :
                    Exhausted(r, u) =>
                        Occurrences(h_resp[r].errors, h_units[r][u].rcv, ErrAPI(503))
                          = Cardinality({v \in UnitsOf(r) : Exhausted(r, v)
                                            /\ h_units[r][v].rcv = h_units[r][u].rcv})

\* C31: when every goroutine is scheduled and every HTTP attempt returns, a
\* POST /send that starts dispatch eventually writes its response; no unit
\* makes more than 3 attempts, and a unit that exhausts them is one failed
\* unit of the response.
C31_DispatchTerminates ==
    /\ []C31_Bounded
    /\ \A r \in Reqs : (h_pc[r] = "wait") ~> Responded(r)

\* A request of four units has responded, one of them having exhausted its
\* three attempts.
C31_Witness ==
    \E r \in Reqs :
        /\ Responded(r) /\ Dispatched(r)
        /\ Cardinality(UnitsOf(r)) = 4
        /\ \E u \in UnitsOf(r) : Exhausted(r, u)
        /\ h_resp[r].failed >= 1 /\ h_resp[r].sent >= 1


----------------------------------------------------------------------------
(* The window boundary of RateLimiter (under SpecLimiter) *)

\* The grants of the last n instants, the present one included.
RECURSIVE GrantsWithin(_)
GrantsWithin(n) == IF n = 0 THEN 0 ELSE rl_hist.recent[n] + GrantsWithin(n - 1)

\* C32: a call that finds the window expired refills to max whatever was
\* granted just before, and the first max calls of every window return true:
\* max calls at the end of one window and max calls at the start of the
\* next can all return true, 2 * max in a row.
C32_RefillIgnoresRecentGrants ==
    /\ \A c \in Callers : (rl_pc[c] = "test" /\ rl_expired[c]) => tokens = max
    /\ rl_hist.calls <= max => rl_hist.grants = rl_hist.calls

\* Reached: 2 * max calls in a row returned true, max of them at the instant
\* before the reset and max at the instant of the reset.
C32_Witness ==
    /\ max = MaxCap
    /\ rl_hist.run = 2 * max
    /\ rl_hist.resets = 1
    /\ rl_hist.recent[1] = max
    /\ rl_hist.recent[2] = max
    /\ lastFill = now
    /\ tokens = 0


\* C39: the grants of any stretch of time shorter than one window length
\* number at most 2 * max; two resets are at least one window length apart,
\* and a refill, however long the limiter was idle, leaves max tokens.
C39_AtMostTwiceMax ==
    /\ GrantsWithin(interval) <= 2 * max
    /\ rl_hist.resets >= 1 => lastFill - rl_hist.prev >= interval
    /\ \A c \in Callers : (rl_pc[c] = "test" /\ rl_expired[c]) => tokens <= max

\* Reached: after an idle stretch of two window lengths a second reset has
\* been made, and 2 * max grants lie within the last window length.
C39_Witness ==
    /\ max = MaxCap
    /\ rl_hist.resets = 2
    /\ lastFill - rl_hist.prev = interval
    /\ GrantsWithin(interval) = 2 * max
    /\ rl_hist.recent[interval] = max


----------------------------------------------------------------------------
(* The run of requests of the end-to-end test (under SpecLoop) *)

\* The run of RunLen(max) calls of the burst in progress is complete.
RunComplete == rl_hist.burst.n = RunLen(max)

\* C33: with the limit of the test, every run of RunLen(max) calls made in a
\* tight loop holds a granted call and a refused one, however many tokens
\* were left when it began, and the call after the run is refused.
C33_RunSeesBoth ==
    max = MaxCap =>
        /\ RunComplete => (rl_hist.burst.oks >= 1 /\ rl_hist.burst.oks < RunLen(max))
        /\ rl_hist.burst.next # "true"

\* Reached: a run that began in a used-up window which had not yet expired;
\* every call of it was refused.
C33_Witness ==
    /\ max = MaxCap
    /\ RunComplete
    /\ rl_hist.burst.oks = 0
    /\ rl_hist.resets = 0
    /\ rl_hist.burst.at < interval


----------------------------------------------------------------------------
(* Properties of a message the provider accepted (under SpecClient) *)

\* C34: once an attempt of SendMessage got a 2xx status, no further request
\* is made for the message and SendMessage returns nil.
C34_AcceptedNeverResent ==
    \A k \in 1..Iterations :
        Is2xx(Out(k)) =>
            /\ Iterations = k
            /\ Returned
            /\ c_ret = Nil

\* Reached: the first attempt got 201 but its body could not be read, the
\* request was made again, and the second 201 was read: the provider
\* accepted the message twice.
C34_Witness ==
    /\ Returned /\ c_ret = Nil
    /\ Iterations = 2
    /\ Is2xx(Out(1)) /\ ReadFailed(Out(1))
    /\ Is2xx(Out(2)) /\ ~ReadFailed(Out(2))


----------------------------------------------------------------------------
(* Properties of the counters in dry-run mode (under SpecServer) *)

\* C35: in dry-run mode sms_sent_total and sms_failed_total stay as they
\* were, whatever the responses report, and alerts_processed_total counts
\* the requests that passed the gate, one each.
C35_DryRunCounters ==
    cfg.DryRun =>
        /\ metrics.smsSentTotal = 0
        /\ metrics.smsFailedTotal = 0
        /\ metrics.alertsProcessedTotal = Cardinality({r \in Reqs : Dispatched(r)})

\* Reached: in dry-run mode two requests passed the gate and were answered,
\* one of them reporting a unit sent and a unit failed in FormatMessage.
C35_Witness ==
    /\ cfg.DryRun
    /\ \A r \in Reqs : Dispatched(r) /\ Responded(r)
    /\ \E r \in Reqs :
          /\ h_resp[r].sent = 1 /\ h_resp[r].failed = 1
          /\ h_resp[r].errors = <<ErrorEntry(RcvA, ErrMissing)>>
    /\ metrics.alertsProcessedTotal = MaxRequests


----------------------------------------------------------------------------
(* Properties of the status used by the gate and the prefix (under Spec) *)

\* The unit handed a message to the transport.
Handed(r, u) == h_units[r][u].calls = 1

\* C36: the gate and the "RESOLVED: " prefix follow the status of the
\* payload alone: a validated request has units exactly when the payload's
\* status passes the gate, and every message handed over is the alert
\* formatted with the payload's status, prefixed exactly when that status is
\* "resolved", whatever the alert's own status says.
C36_PayloadStatusOnly ==
    \A r \in Reqs :
        Validated(r) =>
            /\ (h_units[r] # <<>>) <=> (GateOpen(r) /\ Alerts(r) # <<>>)
            /\ \A u \in UnitsOf(r) :
                  Handed(r, u) =>
                      /\ h_units[r][u].body = FormatMessage(UnitAlert(r, u), PayloadStatus(r), cfg).body
                      /\ HasPrefixAt(h_units[r][u].body, 0, ResolvedText)
                            <=> (PayloadStatus(r) = "resolved")

\* Reached: a firing payload with resolved sending switched off carried an
\* alert whose own status is "resolved"; it was sent, without the prefix.
C36_Witness ==
    \E r \in Reqs :
        /\ PayloadStatus(r) = "firing" /\ ~cfg.SendResolved
        /\ Responded(r) /\ h_resp[r].sent >= 1
        /\ \E u \in UnitsOf(r) :
              /\ UnitAlert(r, u).Status = "resolved"
              /\ Handed(r, u) /\ h_units[r][u].err = Nil
              /\ ~HasPrefixAt(h_units[r][u].body, 0, ResolvedText)


----------------------------------------------------------------------------
(* Properties of the route with webhook auth and the limiter (under SpecServer) *)

Unauthorized(r) == Responded(r) /\ h_resp[r].code = 401

\* C37: with a secret and a rate limit configured, a request answered 401
\* never called Allow() and took no token: the tokens missing from the
\* window are at most as many as the requests that passed the auth check.
C37_AuthBeforeLimiter ==
    /\ \A r \in Reqs :
          Unauthorized(r) =>
              /\ rl_ret[r] = "none" /\ rl_pc[r] = "idle"
              /\ h_in[r] = NoRequestYet
    /\ max - tokens <= Cardinality({r \in Reqs : Entered(r) /\ ~Unauthorized(r)})

\* Reached: with a window of one token, the first request was answered 401
\* and the second, authenticated, was let through and sent its SMS.
C37_Witness ==
    /\ max = 1
    /\ cfg.WebhookSecret # <<>>
    /\ Unauthorized(1)
    /\ Let(2) /\ Responded(2) /\ h_resp[2].sent = 1
    /\ tokens = 0

\* The send handler answered r without starting a goroutine for it.
AnsweredEarly(r) == Read(r) /\ Responded(r) /\ h_units[r] = <<>>

\* C38: every request Allow() let through took exactly one token, whatever
\* the send handler did with it afterwards (406, 400, skipped by the gate, or
\* SMS sent), and the requests answered 429 took none.
C38_OneTokenPerAdmitted ==
    /\ max - tokens = Cardinality({c \in Callers : rl_ret[c] = "true"})
    /\ \A r \in Reqs : (Read(r) \/ h_pc[r] = "wait") => Let(r)
    /\ \A r \in Reqs : Rejected(r) => ~Read(r)

\* Reached: the two tokens of a window went to a request answered 406 or
\* 400 and to a request the status gate skipped.
C38_Witness ==
    /\ max = 2 /\ tokens = 0
    /\ \E r, q \in Reqs :
          /\ AnsweredEarly(r) /\ h_resp[r].code \in {400, 406}
          /\ AnsweredEarly(q) /\ h_resp[q] = WriteResponse(TRUE, 0, 0, <<>>)
          /\ PayloadStatus(q) = "pending"

============================================================================
